---- MODULE Spec2Model ----
(***************************************************************************)
(* A model of the ThreadSanitizer v2 run-time: the thread registry of      *)
(* tsan_rtl_thread.cc (ThreadCreate, ThreadStart, ThreadFinish,            *)
(* ThreadJoin, ThreadDetach, ThreadFinalize, MemoryAccessRange) and the    *)
(* sync table of tsan_sync.cc (SyncTab::GetAndLock, SyncTab::GetAndRemove).*)
(*                                                                         *)
(* The thread table and the quarantine are scaled: the code's kMaxTid is   *)
(* 1 << 16 and its kThreadQuarantineSize is 100; here both are the small   *)
(* bounds MaxTid and MaxQuarantine, so that the thread limit and the       *)
(* recycling of a TID are reached.                                         *)
(***************************************************************************)
EXTENDS Integers, Sequences, FiniteSets, TLC

(***************************************************************************)
(* Bounds of the model.                                                    *)
(***************************************************************************)
\* Size of the quarantine (stands for kThreadQuarantineSize).
MaxQuarantine == 2
\* Size of the thread table (stands for kMaxTid): room for thread 0, for a
\* quarantine that is over its size, and for one more thread.
MaxTid == MaxQuarantine + 3
\* Threads that run at the same time.
MaxRunning == 2
\* Thread handles (pthread_t values) the front-end hands out: 1..MaxUid.
MaxUid == MaxTid
\* Memory accesses are issued while the caller's epoch is below MaxEpoch.
MaxEpoch == 2
\* ThreadCreate calls explored from each initial state.
MaxNew == 1
\* Shards of the sync table (stands for kPartCount).
MaxParts == 1
\* Threads that call into the sync table.
MaxCallers == 2
\* Application addresses passed to the sync table: kShadowCell * (0 .. MaxAddrs - 1).
MaxAddrs == 2
\* SyncVars the slab hands out in a run.
MaxSyncVars == 2
\* MemoryAccessRange on its own: addr is in 0 .. MaxRangeAddr, size in
\* 0 .. MaxRangeSize.
MaxRangeAddr == 8
MaxRangeSize == 17
\* Shadow words of a shadow cell (stands for kShadowCnt).
MaxShadowCnt == 2
\* Shadow cells: the application memory is the bytes 0 .. kShadowCell * MaxCells - 1.
MaxCells == 1
\* MemoryAccessRange calls explored from each initial state, where the shadow
\* memory is followed.
MaxMops == 2
\* The pieces an ignore text is made of.
MaxPieces == 4
\* The ignore triples of a vector that is matched.
MaxTriples == 2
\* The exit codes and the errors found at the end of the process.
MaxExitCode == 2
MaxErrors == 2
\* The front-end: the stack pointers, the calls a thread makes, the nesting
\* of its ignore requests, the threads created, the pthread_t values.
MaxSp == 2
MaxCalls == 3
MaxNest == 2
MaxUniq == 3
MaxPtid == 2

(***************************************************************************)
(* Constants of the program.                                               *)
(***************************************************************************)
kMaxTid == MaxTid
kThreadQuarantineSize == MaxQuarantine
kPartCount == MaxParts
kShadowCell == 8
kShadowCnt == MaxShadowCnt
\* (u64)-1, the value of epoch1 while the thread runs. Kept as the integer -1,
\* so that (u64)-1 + 1 wraps to 0 as it does in the code.
kEpochNone == 0 - 1

Tids == 0 .. (kMaxTid - 1)
Uids == 1 .. MaxUid
Parts == 0 .. (kPartCount - 1)
Callers == 1 .. MaxCallers
Addrs == {kShadowCell * i : i \in 0 .. (MaxAddrs - 1)}
SyncVarIds == 1 .. MaxSyncVars
\* The null pointer. A ThreadContext* is kept as the tid of the context, a
\* ThreadState* as the tid of the thread the state belongs to.
Nil == 0 - 1

ThreadStatusInvalid == "Invalid"
ThreadStatusCreated == "Created"
ThreadStatusRunning == "Running"
ThreadStatusFinished == "Finished"
ThreadStatusDead == "Dead"

Max(a, b) == IF a > b THEN a ELSE b

(***************************************************************************)
(* ChunkedClock: a mapping from TID to epoch, 0 where nothing is stored.   *)
(***************************************************************************)
ZeroClock == [t \in Tids |-> 0]
ClockGet(c, t) == c[t]
ClockSet(c, t, e) == [c EXCEPT ![t] = e]
\* self.acquire(src): the new value of self.
ClockAcquire(self, src) == [t \in Tids |-> Max(self[t], src[t])]
\* self.release(dst): the new value of dst.
ClockRelease(self, dst) == [t \in Tids |-> Max(dst[t], self[t])]
\* Variant: the clock keeps what it held.
ClockFree_kept(c) == c

\* c.Free(): the new value of c.
ClockFree(c) == ZeroClock

(***************************************************************************)
(* StackTrace::ObtainCurrent: the shadow stack followed by toppc if it is  *)
(* not 0.                                                                  *)
(***************************************************************************)
ObtainCurrent(shadow_stack, toppc) ==
  IF toppc # 0 THEN Append(shadow_stack, toppc) ELSE shadow_stack

VARIABLES
  threads,         \* ctx->threads[tid]: the ThreadContext, .alloc FALSE for 0
  thread_seq,      \* ctx->thread_seq
  dead_list_head,  \* ctx->dead_list_head (a tid, or Nil)
  dead_list_tail,  \* ctx->dead_list_tail
  dead_list_size,  \* ctx->dead_list_size
  nreported,       \* ctx->nreported
  thr,             \* the ThreadState of the OS thread that runs tid; .live FALSE when destroyed
  reports,         \* what PrintReport was given, in order
  proc,            \* "run", or how the process ended: "die", "check", "final"
  ev,              \* the last call that had an effect, if it was a ThreadJoin
  reached,         \* per tid: the largest epoch the FastState of a finished incarnation reached
  parent,          \* per tid: <<tid, epoch>> of the caller of the last ThreadCreate that returned it
  died,            \* the tids of the Dead contexts, in the order in which they died
  budget           \* ThreadCreate calls still explored

regVars == <<threads, thread_seq, dead_list_head, dead_list_tail, dead_list_size,
             nreported, thr, reports, proc, ev, reached, parent, died>>

\* The sync table.
VARIABLES
  part_mtx,        \* tab_[i].mtx: [w |-> the caller that holds it exclusively, or 0,
                   \*               r |-> the callers that hold it shared]
  part_val,        \* tab_[i].val: the bucket list, first element first
  syncvar,         \* the SyncVars the slab has handed out, by allocation number
  call             \* per caller: where it is in its call of the sync table

syncVars == <<part_mtx, part_val, syncvar, call>>

\* The locks of the Context.
VARIABLES
  thread_mtx,      \* ctx->thread_mtx: the caller that holds it, as in part_mtx
  report_mtx       \* ctx->report_mtx

lockVars == <<thread_mtx, report_mtx>>

\* The front-end.
VARIABLES
  calls_open       \* FALSE once the front-end makes no further call

\* The shadow memory and what was handed to the reporter.
VARIABLES
  shadow,          \* per shadow cell: its kShadowCnt shadow words
  races,           \* the data races detected: current and previous access
  mops,            \* MemoryAccessRange calls with the shadow still explored
  probed           \* the shadow cells the last MemoryAccessRange call read or wrote

shadowVars == <<shadow, races, mops, probed>>

\* The functions that are followed on their own: the call and what it gave.
VARIABLES
  range,           \* MemoryAccessRange: addr, size, and the updates issued
  ignorefile,      \* ReadIgnoresFromString: the text, the lists, the abort
  matching,        \* TripleVectorMatchKnown: v, fun, obj, file and the result
  fini             \* the end of the process: flags, errors found, exit code

callVars == <<range, ignorefile, matching, fini>>

\* The parts of the program that are followed on their own.
VARIABLES
  frontend,        \* the Valgrind front-end: its threads and the events it sent
  stacktrace       \* a StackTrace: its buffer and its length

partVars == <<frontend, stacktrace>>

pureVars == <<callVars, partVars>>

\* The run-time: everything but the functions followed on their own.
rtlVars == <<regVars, budget, syncVars, lockVars, calls_open, shadowVars>>

vars == <<rtlVars, pureVars>>

\* threads[tid] == 0
NoContext(tid) ==
  [alloc |-> FALSE, tid |-> tid, uid |-> 0, detached |-> FALSE,
   status |-> ThreadStatusInvalid, reuse_count |-> 0, epoch0 |-> 0, epoch1 |-> 0,
   sync |-> ZeroClock, thr |-> Nil, creation_stack |-> <<>>, dead_next |-> Nil]

\* Variant: every context is given the tid 0.
NewThreadContext_first(tid) == [NoContext(0) EXCEPT !.alloc = TRUE]

\* ThreadContext::ThreadContext(tid)
NewThreadContext(tid) == [NoContext(tid) EXCEPT !.alloc = TRUE]

\* A destroyed (or never constructed) ThreadState.
NoThread ==
  [live |-> FALSE, tid |-> 0, epoch |-> 0, ignore |-> FALSE, clock |-> ZeroClock,
   fast_synch_epoch |-> 0, shadow_stack |-> <<>>, ntrace |-> 0]

\* ThreadState::ThreadState(ctx, tid, epoch, ...)
NewThreadState(tid, epoch) ==
  [NoThread EXCEPT !.live = TRUE, !.tid = tid, !.epoch = epoch]

NoEvent == [op |-> "none", tid |-> Nil, thr |-> Nil]

JoinEvent(s, tid) == [op |-> "join", tid |-> tid, thr |-> s]

(***************************************************************************)
(* The state of the run-time as one value C: the Context (threads,         *)
(* thread_seq, the dead list, nreported), the ThreadStates, and the        *)
(* bookkeeping of the model. Every operation below maps a state to the     *)
(* state it leaves.                                                        *)
(***************************************************************************)
\* After the construction of the Context.
Constructed ==
  [threads |-> [t \in Tids |-> NoContext(t)],
   thread_seq |-> 0,
   dead_list_head |-> Nil,
   dead_list_tail |-> Nil,
   dead_list_size |-> 0,
   nreported |-> 0,
   thr |-> [t \in Tids |-> NoThread],
   reports |-> <<>>,
   proc |-> "run",
   ev |-> NoEvent,
   reached |-> [t \in Tids |-> 0],
   parent |-> [t \in Tids |-> <<Nil, 0>>],
   died |-> <<>>]

\* The current state.
Cur ==
  [threads |-> threads, thread_seq |-> thread_seq, dead_list_head |-> dead_list_head,
   dead_list_tail |-> dead_list_tail, dead_list_size |-> dead_list_size,
   nreported |-> nreported, thr |-> thr, reports |-> reports, proc |-> proc,
   ev |-> ev, reached |-> reached, parent |-> parent, died |-> died]

\* The registry and the ThreadStates are those of C.
BecomeReg(C) ==
  /\ threads' = C.threads
  /\ thread_seq' = C.thread_seq
  /\ dead_list_head' = C.dead_list_head
  /\ dead_list_tail' = C.dead_list_tail
  /\ dead_list_size' = C.dead_list_size
  /\ nreported' = C.nreported
  /\ thr' = C.thr
  /\ reports' = C.reports
  /\ proc' = C.proc
  /\ ev' = C.ev
  /\ reached' = C.reached
  /\ parent' = C.parent
  /\ died' = C.died

\* The next state is C. An operation of the registry is one step: it takes
\* thread_mtx (and ThreadFinalize report_mtx) and has released it when it
\* returns.
Become(C) ==
  /\ BecomeReg(C)
  /\ UNCHANGED <<syncVars, lockVars, calls_open, shadowVars, pureVars>>

\* The process ends: Die(), or a failed CHECK. Nothing of the process is left.
Abort(how) == [Constructed EXCEPT !.proc = how]

\* Variant: the last context of the list is not linked to the new one.
DeadListLink_lost(ts, size, tail, t) == ts

\* ThreadDead: if (dead_list_size == 0) ... else dead_list_tail->dead_next =
\* tctx; the contexts after it.
DeadListLink(ts, size, tail, t) ==
  IF size = 0 THEN ts ELSE [ts EXCEPT ![tail].dead_next = t]

\* ThreadDead(thr, tctx): the context, Running or Finished, becomes Dead, loses
\* its uid and its sync clock, and is appended to the dead list.
ThreadDead(C, t) ==
  IF C.threads[t].status \notin {ThreadStatusRunning, ThreadStatusFinished}
  THEN Abort("check")
  ELSE
  LET ts1 == [C.threads EXCEPT ![t].status = ThreadStatusDead,
                               ![t].uid = 0,
                               ![t].sync = ClockFree(@),
                               ![t].dead_next = Nil]
      ts2 == DeadListLink(ts1, C.dead_list_size, C.dead_list_tail, t)
  IN  [C EXCEPT !.threads = ts2,
                !.dead_list_head = IF C.dead_list_size = 0 THEN t ELSE @,
                !.dead_list_tail = t,
                !.dead_list_size = @ + 1,
                !.died = Append(@, t)]

\* Variant: a quarantine of exactly its size is recycled from.
ReuseCondition_atQ(size, seq) == size >= kThreadQuarantineSize \/ seq >= kMaxTid

\* ThreadCreate: whether a Dead context is taken from the quarantine.
ReuseCondition(size, seq) == size > kThreadQuarantineSize \/ seq >= kMaxTid

\* Variant: the limit is declared with one Dead context left.
ThreadLimitExceeded_early(size) == size <= 1

\* ThreadCreate: "thread limit exceeded. Dying."
ThreadLimitExceeded(size) == size = 0

\* Variant: the context that died last is taken.
DeadListPop_newest(C) == C.dead_list_tail

\* ThreadCreate: the context taken from the dead list.
DeadListPop(C) == C.dead_list_head

\* Variant: the epoch is incremented and no event is traced.
BumpEpoch_notrace(st) ==
  [st EXCEPT !.epoch = @ + 1,
             !.clock = ClockSet(@, st.tid, st.epoch + 1),
             !.fast_synch_epoch = st.epoch + 1]

\* The parent's release in ThreadCreate and the thread's own in ThreadFinish:
\* the epoch is incremented, traced, stored in the own clock component.
BumpEpoch(st) ==
  [st EXCEPT !.epoch = @ + 1,
             !.ntrace = @ + 1,
             !.clock = ClockSet(@, st.tid, st.epoch + 1),
             !.fast_synch_epoch = st.epoch + 1]

\* ThreadCreate: what the caller does once the context is Created.
\* "if (tid)": nothing for tid 0.
CreateRelease(tid, st) == IF tid # 0 THEN BumpEpoch(st) ELSE st

\* ThreadCreate, from CHECK_EQ(tctx->status, ThreadStatusInvalid) on: the
\* context tctx (new, or taken from the dead list) becomes Created.
CreateContext(tctx, st, pc, uid, detached) ==
  [tctx EXCEPT !.status = ThreadStatusCreated,
               !.thr = Nil,
               !.uid = uid,
               !.detached = detached,
               !.sync = IF tctx.tid # 0 THEN ClockRelease(st.clock, @) ELSE @,
               !.creation_stack =
                  IF tctx.tid # 0 THEN ObtainCurrent(st.shadow_stack, pc) ELSE @]

(***************************************************************************)
(* int ThreadCreate(ThreadState *thr, uptr pc, uptr uid, bool detached),   *)
(* called by the thread s.                                                 *)
(***************************************************************************)
DoThreadCreate(C, s, pc, uid, detached) ==
  IF ReuseCondition(C.dead_list_size, C.thread_seq)
  THEN IF ThreadLimitExceeded(C.dead_list_size)
       THEN Abort("die")
       ELSE LET tid == DeadListPop(C)
                size1 == C.dead_list_size - 1
            IN  IF \/ (size1 = 0 /\ C.threads[tid].dead_next # Nil)
                   \/ C.threads[tid].status # ThreadStatusDead
                THEN Abort("check")
                ELSE LET st == CreateRelease(tid, C.thr[s])
                         tctx == [C.threads[tid] EXCEPT
                                    !.status = ThreadStatusInvalid,
                                    !.reuse_count = @ + 1]
                     IN  [C EXCEPT
                            !.threads[tid] = CreateContext(tctx, st, pc, uid, detached),
                            !.dead_list_head =
                               IF size1 = 0 THEN Nil ELSE C.threads[tid].dead_next,
                            !.dead_list_size = size1,
                            !.thr[s] = st,
                            !.parent[tid] = <<s, st.epoch>>,
                            !.died = SelectSeq(@, LAMBDA t : t # tid),
                            !.ev = NoEvent]
  ELSE LET tid == C.thread_seq
           st == CreateRelease(tid, C.thr[s])
       IN  [C EXCEPT
              !.thread_seq = @ + 1,
              !.threads[tid] =
                 CreateContext(NewThreadContext(tid), st, pc, uid, detached),
              !.thr[s] = st,
              !.parent[tid] = IF C.thr[s].live THEN <<s, st.epoch>> ELSE <<Nil, 0>>,
              !.ev = NoEvent]

\* Variant: any context that exists is started.
StartAllowed_any(tctx) == tctx.alloc

\* ThreadStart: CHECK_NE(tctx, 0); CHECK_EQ(tctx->status, ThreadStatusCreated);
StartAllowed(tctx) == tctx.alloc /\ tctx.status = ThreadStatusCreated

(***************************************************************************)
(* void ThreadStart(ThreadState *thr, int tid)                             *)
(***************************************************************************)
DoThreadStart(C, tid) ==
  IF ~StartAllowed(C.threads[tid])
  THEN Abort("check")
  ELSE LET epoch0 == C.threads[tid].epoch1 + 1
           st == [NewThreadState(tid, epoch0) EXCEPT
                    !.fast_synch_epoch = epoch0,
                    !.clock = ClockAcquire(ClockSet(@, tid, epoch0), C.threads[tid].sync)]
       IN  [C EXCEPT !.threads[tid].status = ThreadStatusRunning,
                     !.threads[tid].epoch0 = epoch0,
                     !.threads[tid].epoch1 = kEpochNone,
                     !.threads[tid].thr = tid,
                     !.thr[tid] = st,
                     !.ev = NoEvent]

\* Variant: the pointer to the destroyed ThreadState is kept.
FinishThrPtr_kept(s) == s

\* ThreadFinish: the value stored in tctx->thr after the ThreadState is destroyed.
FinishThrPtr(s) == Nil

\* ThreadFinish: the value saved in tctx->epoch1.
FinishEpoch1(st) == ClockGet(st.clock, st.tid)

(***************************************************************************)
(* void ThreadFinish(ThreadState *thr), called by the thread s.            *)
(***************************************************************************)
DoThreadFinish(C, s) ==
  LET tid == C.thr[s].tid
  IN  IF ~C.threads[tid].alloc \/ C.threads[tid].status # ThreadStatusRunning
      THEN Abort("check")
      ELSE LET st == IF C.threads[tid].detached THEN C.thr[s] ELSE BumpEpoch(C.thr[s])
               C1 == IF C.threads[tid].detached
                     THEN ThreadDead(C, tid)
                     ELSE [C EXCEPT
                             !.threads[tid].sync = ClockRelease(st.clock, @),
                             !.threads[tid].status = ThreadStatusFinished]
           IN  IF C1.proc # "run" THEN C1 ELSE
               [C1 EXCEPT !.threads[tid].epoch1 = FinishEpoch1(st),
                          !.threads[tid].thr = FinishThrPtr(s),
                          !.thr[s] = NoThread,
                          !.reached[tid] = st.epoch,
                          !.ev = NoEvent]

\* ThreadJoin, ThreadDetach: the first context with this uid that is not
\* Invalid, or Nil.
FindThread(C, uid) ==
  LET hits == {t \in Tids : /\ C.threads[t].alloc
                            /\ C.threads[t].uid = uid
                            /\ C.threads[t].status # ThreadStatusInvalid}
  IN  IF hits = {} THEN Nil ELSE CHOOSE t \in hits : \A u \in hits : t <= u

\* Variant: a join that does not acquire.
JoinClock_noacquire(clk, sync) == clk

\* ThreadJoin: the joiner's clock after the join.
JoinClock(clk, sync) == ClockAcquire(clk, sync)

(***************************************************************************)
(* void ThreadJoin(ThreadState *thr, uptr pc, uptr uid), called by s.      *)
(***************************************************************************)
DoThreadJoin(C, s, uid) ==
  LET tid == FindThread(C, uid)
  IN  IF tid = Nil
      THEN C
      ELSE IF C.threads[tid].detached \/ C.threads[tid].status # ThreadStatusFinished
      THEN Abort("check")
      ELSE IF ThreadDead(C, tid).proc # "run"
      THEN ThreadDead(C, tid)
      ELSE [ThreadDead(C, tid) EXCEPT
              !.thr[s].clock = JoinClock(@, C.threads[tid].sync),
              !.ev = JoinEvent(s, tid)]

\* Variant: a detach only sets the flag.
DetachKills_never(st) == FALSE

\* ThreadDetach: whether the thread found goes to the dead list at once.
DetachKills(st) == st = ThreadStatusFinished

(***************************************************************************)
(* void ThreadDetach(ThreadState *thr, uptr pc, uptr uid), called by s.    *)
(***************************************************************************)
DoThreadDetach(C, s, uid) ==
  LET tid == FindThread(C, uid)
  IN  IF tid = Nil
      THEN C
      ELSE IF DetachKills(C.threads[tid].status)
      THEN IF ThreadDead(C, tid).proc # "run"
           THEN ThreadDead(C, tid)
           ELSE [ThreadDead(C, tid) EXCEPT !.ev = NoEvent]
      ELSE [C EXCEPT !.threads[tid].detached = TRUE, !.ev = NoEvent]

\* Variant: detached threads are reported too.
IsLeak_detached(tctx) ==
  /\ tctx.alloc
  /\ tctx.status \in {ThreadStatusCreated, ThreadStatusRunning, ThreadStatusFinished}

\* ThreadFinalize: whether a context is reported as a leaked thread.
IsLeak(tctx) ==
  /\ tctx.alloc
  /\ ~tctx.detached
  /\ tctx.status \in {ThreadStatusCreated, ThreadStatusRunning, ThreadStatusFinished}

\* ThreadFinalize: the report printed for a leaked thread.
LeakReport(tctx) ==
  [typ |-> "ReportTypeThreadLeak", nthread |-> 1, id |-> tctx.tid,
   running |-> (tctx.status # ThreadStatusFinished), stack |-> tctx.creation_stack]

\* ThreadFinalize: the reports of the loop over threads[0 .. n-1], in order.
RECURSIVE LeakReports(_, _)
LeakReports(ts, n) ==
  IF n = 0 THEN <<>>
  ELSE LET before == LeakReports(ts, n - 1)
       IN  IF IsLeak(ts[n - 1]) THEN Append(before, LeakReport(ts[n - 1]))
           ELSE before

(***************************************************************************)
(* void ThreadFinalize(ThreadState *thr): called as the program ends. The  *)
(* process exits after it: what is left is what it printed and counted.    *)
(***************************************************************************)
DoThreadFinalize(C) ==
  [Abort("final") EXCEPT
     !.reports = C.reports \o LeakReports(C.threads, kMaxTid),
     !.nreported = C.nreported + Len(LeakReports(C.threads, kMaxTid))]

\* Variant: the ignore bit is not looked at.
AccessSkipped_sizeonly(size, ignore) == size = 0

\* MemoryAccessRange: if (size == 0) return; ... if (fast_state.GetIgnoreBit())
\* return;
AccessSkipped(size, ignore) == size = 0 \/ ignore

(***************************************************************************)
(* void MemoryAccessRange(thr, pc, addr, size, is_write), called by s: its *)
(* effect on the caller's FastState and trace.                             *)
(***************************************************************************)
DoMemoryAccessRange(C, s, size) ==
  IF AccessSkipped(size, C.thr[s].ignore)
  THEN C
  ELSE [C EXCEPT !.thr[s].epoch = @ + 1, !.thr[s].ntrace = @ + 1, !.ev = NoEvent]

(***************************************************************************)
(* What the front-end passes.                                              *)
(***************************************************************************)
\* A thread handle that no thread that still exists at the OS level carries.
FreshUid(C, uid) ==
  \A t \in Tids :
    C.threads[t].alloc /\ C.threads[t].uid = uid =>
      C.threads[t].status \in {ThreadStatusDead, ThreadStatusInvalid}

\* The handle the OS gives the next thread: handles are only compared, so the
\* smallest free one stands for any.
NextUid(C) == CHOOSE uid \in Uids : FreshUid(C, uid) /\ \A u \in Uids : u < uid => ~FreshUid(C, u)

\* The handles passed to ThreadJoin and ThreadDetach: the uid of any context
\* (0 is thread 0's, and what a Dead context is left with), and MaxUid for a
\* handle that no thread carries.
KnownUids == {threads[t].uid : t \in Tids} \cup {MaxUid}

\* The pc of the pthread_create call: one call site per calling thread.
CreatePc(s) == s + 1

\* Number of live ThreadStates.
NRunning == Cardinality({t \in Tids : thr[t].live})

(***************************************************************************)
(* The operations as steps of the run. The first call of ThreadCreate is   *)
(* Initialize()'s, ThreadCreate(thr, 0, 0, true), made before any          *)
(* ThreadState exists: it returns tid 0 and does not touch thr. Every      *)
(* other caller is a running thread.                                       *)
(***************************************************************************)
ThreadCreateFirst ==
  /\ proc = "run"
  /\ thread_seq = 0
  /\ Become(DoThreadCreate(Cur, 0, 0, 0, TRUE))
  /\ UNCHANGED budget

ThreadCreate(s, detached) ==
  /\ proc = "run"
  /\ thr[s].live
  /\ budget > 0
  /\ \E uid \in Uids : FreshUid(Cur, uid)
  /\ Become(DoThreadCreate(Cur, s, CreatePc(s), NextUid(Cur), detached))
  /\ budget' = budget - 1

\* Called by the new OS thread on its own, not yet constructed, ThreadState.
ThreadStart(tid) ==
  /\ proc = "run"
  /\ thread_seq > 0
  /\ ~thr[tid].live
  /\ NRunning < MaxRunning
  /\ Become(DoThreadStart(Cur, tid))
  /\ UNCHANGED budget

ThreadFinish(s) ==
  /\ proc = "run"
  /\ thr[s].live
  /\ Become(DoThreadFinish(Cur, s))
  /\ UNCHANGED budget

ThreadJoin(s, uid) ==
  /\ proc = "run"
  /\ thr[s].live
  /\ uid \in KnownUids
  /\ Become(DoThreadJoin(Cur, s, uid))
  /\ UNCHANGED budget

ThreadDetach(s, uid) ==
  /\ proc = "run"
  /\ thr[s].live
  /\ uid \in KnownUids
  /\ Become(DoThreadDetach(Cur, s, uid))
  /\ UNCHANGED budget

ThreadFinalize(s) ==
  /\ proc = "run"
  /\ thr[s].live
  /\ Become(DoThreadFinalize(Cur))
  /\ UNCHANGED budget

MemoryAccessRange(s, size) ==
  /\ proc = "run"
  /\ thr[s].live
  /\ thr[s].epoch < MaxEpoch
  /\ Become(DoMemoryAccessRange(Cur, s, size))
  /\ UNCHANGED budget

\* The lengths of the ranges accessed: none, a byte, two shadow cells.
RangeLens == {0, 1, 2 * kShadowCell}

Next ==
  \/ ThreadCreateFirst
  \/ \E s \in Tids, detached \in BOOLEAN : ThreadCreate(s, detached)
  \/ \E tid \in Tids : ThreadStart(tid)
  \/ \E s \in Tids : ThreadFinish(s)
  \/ \E s \in Tids, uid \in 0 .. MaxUid : ThreadJoin(s, uid)
  \/ \E s \in Tids, uid \in 0 .. MaxUid : ThreadDetach(s, uid)
  \/ \E s \in Tids : ThreadFinalize(s)
  \/ \E s \in Tids, size \in RangeLens : MemoryAccessRange(s, size)

(***************************************************************************)
(* The sync table: SyncTab of tsan_sync.cc.                                *)
(***************************************************************************)
\* Mutex: a read/write lock that nobody holds.
FreeMutex == [w |-> 0, r |-> {}]

\* Variant: Mutex::Lock returns at once.
CanLock_always(m, t) == TRUE

\* Mutex::Lock can return for t.
CanLock(m, t) == m.w = 0 /\ m.r = {}

\* Mutex::ReadLock can return for t.
CanReadLock(m, t) == m.w = 0

\* Variant: the mutex is left as it was found.
MutexLock_untaken(m, t) == m

\* Mutex::Lock, once it can return for t.
MutexLock(m, t) == [m EXCEPT !.w = t]

MutexUnlock(m, t) == [m EXCEPT !.w = 0]

MutexReadLock(m, t) == [m EXCEPT !.r = @ \cup {t}]

MutexReadUnlock(m, t) == [m EXCEPT !.r = @ \ {t}]

\* Memory of the slab that holds no SyncVar yet. removed: GetAndRemove has
\* returned this SyncVar to its caller.
NoSyncVar ==
  [alloc |-> FALSE, addr |-> 0, mtx |-> FreeMutex, creation_stack |-> <<>>,
   removed |-> FALSE]

\* SyncVar::SyncVar(addr), and creation_stack.ObtainCurrent(thr, pc).
NewSyncVar(addr, pc) ==
  [alloc |-> TRUE, addr |-> addr, mtx |-> FreeMutex,
   creation_stack |-> ObtainCurrent(<<>>, pc), removed |-> FALSE]

\* slab->Alloc(): the next piece of memory.
SlabAlloc == CHOOSE v \in SyncVarIds : ~syncvar[v].alloc /\ \A u \in SyncVarIds : u < v => syncvar[u].alloc

\* int SyncTab::PartIdx(uptr addr)
PartIdx(addr) == (addr \div 8) % kPartCount

\* The walk of a bucket: the first SyncVar with this addr, or 0.
RECURSIVE Find(_, _)
Find(bucket, addr) ==
  IF bucket = <<>> THEN 0
  ELSE IF syncvar[Head(bucket)].addr = addr THEN Head(bucket)
  ELSE Find(Tail(bucket), addr)

\* Variant: the miss under the read lock is taken for final.
Recheck_skipped(bucket, addr) == 0

\* GetAndLock: the second walk, under the shard's write lock.
Recheck(bucket, addr) == Find(bucket, addr)

\* Variant: the SyncVar found stays in the bucket.
Unlink_kept(bucket, v) == bucket

\* GetAndRemove: the bucket without the SyncVar v.
Unlink(bucket, v) == SelectSeq(bucket, LAMBDA x : x # v)

\* A caller between two calls. In a call: pc is where it is, res the SyncVar
\* it has found, created whether this call created it; in a call of the thread
\* registry op is the function and i the loop index of ThreadFinalize.
Idle ==
  [pc |-> "idle", addr |-> 0, write_lock |-> FALSE, res |-> 0, created |-> FALSE,
   op |-> "none", i |-> 0, args |-> <<>>, body |-> <<>>]

\* The pc passed to GetAndLock: the callers share one call site.
CallPc == 1

\* The SyncVars handed out so far, and the calls that may still take one.
NAllocated == Cardinality({v \in SyncVarIds : syncvar[v].alloc})

NMayAlloc == Cardinality({t \in Callers : call[t].pc \in {"gl_rd", "gl_walk", "gl_wr", "gl_recheck"}})

\* SyncVar* SyncTab::GetAndLock(thr, pc, slab, addr, write_lock): the call.
GetAndLock(t, addr, write_lock) ==
  /\ calls_open
  /\ call[t].pc = "idle"
  /\ NAllocated + NMayAlloc < MaxSyncVars
  /\ call' = [call EXCEPT ![t] = [Idle EXCEPT !.pc = "gl_rd", !.addr = addr,
                                                !.write_lock = write_lock]]
  /\ UNCHANGED <<part_mtx, part_val, syncvar>>
  /\ UNCHANGED <<regVars, budget, lockVars, calls_open, shadowVars, pureVars>>

\* ReadLock l(&p->mtx);
GetAndLockReadLock(t) ==
  /\ call[t].pc = "gl_rd"
  /\ CanReadLock(part_mtx[PartIdx(call[t].addr)], t)
  /\ part_mtx' = [part_mtx EXCEPT ![PartIdx(call[t].addr)] = MutexReadLock(@, t)]
  /\ call' = [call EXCEPT ![t].pc = "gl_walk"]
  /\ UNCHANGED <<part_val, syncvar>>
  /\ UNCHANGED <<regVars, budget, lockVars, calls_open, shadowVars, pureVars>>

\* Variant: the read lock is dropped as soon as the walk has hit.
WalkHitMutex_released(m, t) == MutexReadUnlock(m, t)

\* GetAndLock: the shard lock after a hit. The scope of ReadLock l spans the
\* locking of res, so it is still held.
WalkHitMutex(m, t) == m

\* The walk under the read lock. A miss leaves the block, which unlocks.
GetAndLockWalk(t) ==
  /\ call[t].pc = "gl_walk"
  /\ LET v == Find(part_val[PartIdx(call[t].addr)], call[t].addr)
     IN  IF v # 0
         THEN /\ call' = [call EXCEPT ![t].pc = "gl_hit", ![t].res = v]
              /\ part_mtx' = [part_mtx EXCEPT ![PartIdx(call[t].addr)] = WalkHitMutex(@, t)]
         ELSE /\ call' = [call EXCEPT ![t].pc = "gl_wr"]
              /\ part_mtx' = [part_mtx EXCEPT ![PartIdx(call[t].addr)] = MutexReadUnlock(@, t)]
  /\ UNCHANGED <<part_val, syncvar>>
  /\ UNCHANGED <<regVars, budget, lockVars, calls_open, shadowVars, pureVars>>

\* Variant: the SyncVar is always locked shared.
VarLockExclusive_never(write_lock) == FALSE

\* GetAndLock: if (write_lock) res->mtx.Lock(); else res->mtx.ReadLock();
VarLockExclusive(write_lock) == write_lock

\* res->mtx.Lock() or res->mtx.ReadLock(), on the hit and on the miss path:
\* the shard lock is still held.
GetAndLockVar(t) ==
  /\ call[t].pc \in {"gl_hit", "gl_miss"}
  /\ LET v == call[t].res
     IN  IF VarLockExclusive(call[t].write_lock)
         THEN /\ CanLock(syncvar[v].mtx, t)
              /\ syncvar' = [syncvar EXCEPT ![v].mtx = MutexLock(@, t)]
         ELSE /\ CanReadLock(syncvar[v].mtx, t)
              /\ syncvar' = [syncvar EXCEPT ![v].mtx = MutexReadLock(@, t)]
  /\ call' = [call EXCEPT ![t].pc = IF call[t].pc = "gl_hit" THEN "gl_hit_ret" ELSE "gl_miss_ret"]
  /\ UNCHANGED <<part_mtx, part_val>>
  /\ UNCHANGED <<regVars, budget, lockVars, calls_open, shadowVars, pureVars>>

\* Variant: the return on a hit leaves the read lock held.
ReturnShardUnlock_hitheld(m, t, hit) == IF hit THEN m ELSE MutexUnlock(m, t)

\* GetAndLock: the end of the scope of ReadLock l (hit) or Lock l (miss).
ReturnShardUnlock(m, t, hit) ==
  IF hit THEN MutexReadUnlock(m, t) ELSE MutexUnlock(m, t)

\* return res: the shard lock is released as the block is left.
GetAndLockReturn(t) ==
  /\ call[t].pc \in {"gl_hit_ret", "gl_miss_ret"}
  /\ part_mtx' = [part_mtx EXCEPT ![PartIdx(call[t].addr)] =
                    ReturnShardUnlock(@, t, call[t].pc = "gl_hit_ret")]
  /\ call' = [call EXCEPT ![t].pc = "locked"]
  /\ UNCHANGED <<part_val, syncvar>>
  /\ UNCHANGED <<regVars, budget, lockVars, calls_open, shadowVars, pureVars>>

\* Lock l(&p->mtx);
GetAndLockLock(t) ==
  /\ call[t].pc = "gl_wr"
  /\ CanLock(part_mtx[PartIdx(call[t].addr)], t)
  /\ part_mtx' = [part_mtx EXCEPT ![PartIdx(call[t].addr)] = MutexLock(@, t)]
  /\ call' = [call EXCEPT ![t].pc = "gl_recheck"]
  /\ UNCHANGED <<part_val, syncvar>>
  /\ UNCHANGED <<regVars, budget, lockVars, calls_open, shadowVars, pureVars>>

\* The second walk, and the creation of the SyncVar if it is still absent.
GetAndLockCreate(t) ==
  /\ call[t].pc = "gl_recheck"
  /\ LET i == PartIdx(call[t].addr)
         v == Recheck(part_val[i], call[t].addr)
     IN  IF v # 0
         THEN /\ call' = [call EXCEPT ![t].pc = "gl_miss", ![t].res = v]
              /\ UNCHANGED <<part_val, syncvar>>
         ELSE /\ syncvar' = [syncvar EXCEPT ![SlabAlloc] = NewSyncVar(call[t].addr, CallPc)]
              /\ part_val' = [part_val EXCEPT ![i] = <<SlabAlloc>> \o @]
              /\ call' = [call EXCEPT ![t].pc = "gl_miss", ![t].res = SlabAlloc,
                                      ![t].created = TRUE]
  /\ UNCHANGED part_mtx
  /\ UNCHANGED <<regVars, budget, lockVars, calls_open, shadowVars, pureVars>>

\* The caller of GetAndLock unlocks the SyncVar it was returned.
SyncVarUnlock(t) ==
  /\ call[t].pc = "locked"
  /\ syncvar' = [syncvar EXCEPT ![call[t].res].mtx =
                   IF call[t].write_lock THEN MutexUnlock(@, t) ELSE MutexReadUnlock(@, t)]
  /\ call' = [call EXCEPT ![t] = Idle]
  /\ UNCHANGED <<part_mtx, part_val>>
  /\ UNCHANGED <<regVars, budget, lockVars, calls_open, shadowVars, pureVars>>

\* SyncVar* SyncTab::GetAndRemove(uptr addr): the call.
GetAndRemove(t, addr) ==
  /\ calls_open
  /\ call[t].pc = "idle"
  /\ call' = [call EXCEPT ![t] = [Idle EXCEPT !.pc = "gr_wr", !.addr = addr]]
  /\ UNCHANGED <<part_mtx, part_val, syncvar>>
  /\ UNCHANGED <<regVars, budget, lockVars, calls_open, shadowVars, pureVars>>

\* Lock l(&p->mtx);
GetAndRemoveLock(t) ==
  /\ call[t].pc = "gr_wr"
  /\ CanLock(part_mtx[PartIdx(call[t].addr)], t)
  /\ part_mtx' = [part_mtx EXCEPT ![PartIdx(call[t].addr)] = MutexLock(@, t)]
  /\ call' = [call EXCEPT ![t].pc = "gr_unlink"]
  /\ UNCHANGED <<part_val, syncvar>>
  /\ UNCHANGED <<regVars, budget, lockVars, calls_open, shadowVars, pureVars>>

\* The walk that unlinks, to the end of the block, which unlocks the shard.
\* With no SyncVar found, GetAndRemove returns 0.
GetAndRemoveUnlink(t) ==
  /\ call[t].pc = "gr_unlink"
  /\ LET i == PartIdx(call[t].addr)
         v == Find(part_val[i], call[t].addr)
     IN  /\ part_val' = [part_val EXCEPT ![i] = IF v # 0 THEN Unlink(@, v) ELSE @]
         /\ part_mtx' = [part_mtx EXCEPT ![i] = MutexUnlock(@, t)]
         /\ call' = [call EXCEPT ![t] =
                       IF v # 0 THEN [@ EXCEPT !.pc = "gr_drain", !.res = v] ELSE Idle]
  /\ UNCHANGED syncvar
  /\ UNCHANGED <<regVars, budget, lockVars, calls_open, shadowVars, pureVars>>

\* res->mtx.Lock();
GetAndRemoveDrain(t) ==
  /\ call[t].pc = "gr_drain"
  /\ CanLock(syncvar[call[t].res].mtx, t)
  /\ syncvar' = [syncvar EXCEPT ![call[t].res].mtx = MutexLock(@, t)]
  /\ call' = [call EXCEPT ![t].pc = "gr_ret"]
  /\ UNCHANGED <<part_mtx, part_val>>
  /\ UNCHANGED <<regVars, budget, lockVars, calls_open, shadowVars, pureVars>>

\* res->mtx.Unlock(); return res;
GetAndRemoveReturn(t) ==
  /\ call[t].pc = "gr_ret"
  /\ syncvar' = [syncvar EXCEPT ![call[t].res].mtx = MutexUnlock(@, t),
                                ![call[t].res].removed = TRUE]
  /\ call' = [call EXCEPT ![t] = Idle]
  /\ UNCHANGED <<part_mtx, part_val>>
  /\ UNCHANGED <<regVars, budget, lockVars, calls_open, shadowVars, pureVars>>

InitSyncTab ==
  /\ part_mtx = [i \in Parts |-> FreeMutex]
  /\ part_val = [i \in Parts |-> <<>>]
  /\ syncvar = [v \in SyncVarIds |-> NoSyncVar]
  /\ call = [t \in Callers |-> Idle]

NextSyncTab ==
  \/ \E t \in Callers, addr \in Addrs, write_lock \in BOOLEAN : GetAndLock(t, addr, write_lock)
  \/ \E t \in Callers : GetAndLockReadLock(t)
  \/ \E t \in Callers : GetAndLockWalk(t)
  \/ \E t \in Callers : GetAndLockVar(t)
  \/ \E t \in Callers : GetAndLockReturn(t)
  \/ \E t \in Callers : GetAndLockLock(t)
  \/ \E t \in Callers : GetAndLockCreate(t)
  \/ \E t \in Callers : SyncVarUnlock(t)
  \/ \E t \in Callers, addr \in Addrs : GetAndRemove(t, addr)
  \/ \E t \in Callers : GetAndRemoveLock(t)
  \/ \E t \in Callers : GetAndRemoveUnlink(t)
  \/ \E t \in Callers : GetAndRemoveDrain(t)
  \/ \E t \in Callers : GetAndRemoveReturn(t)

(***************************************************************************)
(* The locks the operations of the thread registry take, step by step.     *)
(* Every operation begins with Lock l(&CTX()->thread_mtx), whose scope is  *)
(* the function; ThreadFinalize takes report_mtx around each report. Here  *)
(* the registry is read, not written: what the bodies store is in the      *)
(* operations above, and no store of theirs takes a lock.                  *)
(***************************************************************************)
RegistryOps ==
  {"ThreadCreate", "ThreadStart", "ThreadFinish", "ThreadJoin", "ThreadDetach",
   "ThreadFinalize"}

\* The call of an operation of the registry.
RegistryCall(t, op) ==
  /\ calls_open
  /\ call[t].pc = "idle"
  /\ call' = [call EXCEPT ![t] = [Idle EXCEPT !.pc = "reg_lock", !.op = op]]
  /\ UNCHANGED <<part_mtx, part_val, syncvar>>
  /\ UNCHANGED <<regVars, budget, lockVars, calls_open, shadowVars, pureVars>>

\* Lock l(&CTX()->thread_mtx);
RegistryLock(t) ==
  /\ call[t].pc = "reg_lock"
  /\ CanLock(thread_mtx, t)
  /\ thread_mtx' = MutexLock(thread_mtx, t)
  /\ call' = [call EXCEPT ![t].pc =
                IF call[t].op = "ThreadFinalize" THEN "fin_loop" ELSE "reg_body"]
  /\ UNCHANGED <<part_mtx, part_val, syncvar, report_mtx>>
  /\ UNCHANGED <<regVars, budget, calls_open, shadowVars, pureVars>>

\* Variant: a return that leaves thread_mtx locked.
RegistryScopeExit_held(m, t) == m

\* The end of the scope of Lock l(&CTX()->thread_mtx): a return, early
\* ("non-existent thread") or at the end of the function.
RegistryScopeExit(m, t) == MutexUnlock(m, t)

\* The body of ThreadCreate, ThreadStart, ThreadFinish, ThreadJoin or
\* ThreadDetach, to its return.
RegistryReturn(t) ==
  /\ call[t].pc = "reg_body"
  /\ thread_mtx' = RegistryScopeExit(thread_mtx, t)
  /\ call' = [call EXCEPT ![t] = Idle]
  /\ UNCHANGED <<part_mtx, part_val, syncvar, report_mtx>>
  /\ UNCHANGED <<regVars, budget, calls_open, shadowVars, pureVars>>

\* ThreadFinalize: the first index from i on whose context is reported, or
\* kMaxTid.
NextLeak(i) ==
  LET leaks == {k \in i .. (kMaxTid - 1) : IsLeak(threads[k])}
  IN  IF leaks = {} THEN kMaxTid ELSE CHOOSE k \in leaks : \A j \in leaks : k <= j

\* ThreadFinalize: for (int i = 0; i < kMaxTid; i++), over the contexts that
\* are skipped, to the report of a leaked thread or to the return.
FinalizeLoop(t) ==
  /\ call[t].pc = "fin_loop"
  /\ IF NextLeak(call[t].i) >= kMaxTid
     THEN /\ thread_mtx' = RegistryScopeExit(thread_mtx, t)
          /\ call' = [call EXCEPT ![t] = Idle]
     ELSE /\ UNCHANGED thread_mtx
          /\ call' = [call EXCEPT ![t].pc = "fin_rep_lock",
                                  ![t].i = NextLeak(call[t].i)]
  /\ UNCHANGED <<part_mtx, part_val, syncvar, report_mtx>>
  /\ UNCHANGED <<regVars, budget, calls_open, shadowVars, pureVars>>

\* ThreadFinalize: Lock l(&ctx->report_mtx);
FinalizeReportLock(t) ==
  /\ call[t].pc = "fin_rep_lock"
  /\ CanLock(report_mtx, t)
  /\ report_mtx' = MutexLock(report_mtx, t)
  /\ call' = [call EXCEPT ![t].pc = "fin_rep"]
  /\ UNCHANGED <<part_mtx, part_val, syncvar, thread_mtx>>
  /\ UNCHANGED <<regVars, budget, calls_open, shadowVars, pureVars>>

\* Variant: report_mtx stays locked after the report.
ReportScopeExit_held(m, t) == m

\* ThreadFinalize: the end of the loop body, the scope of Lock l(&ctx->report_mtx).
ReportScopeExit(m, t) == MutexUnlock(m, t)

\* ThreadFinalize: the report is printed, the loop body ends.
FinalizeReport(t) ==
  /\ call[t].pc = "fin_rep"
  /\ report_mtx' = ReportScopeExit(report_mtx, t)
  /\ call' = [call EXCEPT ![t].pc = "fin_loop", ![t].i = @ + 1]
  /\ UNCHANGED <<part_mtx, part_val, syncvar, thread_mtx>>
  /\ UNCHANGED <<regVars, budget, calls_open, shadowVars, pureVars>>

\* The front-end makes its last call: the calls in progress go on.
CallsClose ==
  /\ calls_open
  /\ calls_open' = FALSE
  /\ UNCHANGED <<regVars, budget, syncVars, lockVars, shadowVars, pureVars>>

\* A step of the caller t inside a call, and the unlock of the SyncVar that
\* GetAndLock returned.
Progress(t) ==
  \/ GetAndLockReadLock(t)
  \/ GetAndLockWalk(t)
  \/ GetAndLockVar(t)
  \/ GetAndLockReturn(t)
  \/ GetAndLockLock(t)
  \/ GetAndLockCreate(t)
  \/ SyncVarUnlock(t)
  \/ GetAndRemoveLock(t)
  \/ GetAndRemoveUnlink(t)
  \/ GetAndRemoveDrain(t)
  \/ GetAndRemoveReturn(t)
  \/ RegistryLock(t)
  \/ RegistryReturn(t)
  \/ FinalizeLoop(t)
  \/ FinalizeReportLock(t)
  \/ FinalizeReport(t)

\* The addresses passed to the sync table where the registry's locks are in
\* play too: the first one. The interleavings over several addresses are
\* those of NextSyncTab.
LockAddrs == {addr \in Addrs : addr < kShadowCell}

\* The calls of the sync table and of the registry, lock by lock.
NextLocks ==
  \/ \E t \in Callers, addr \in LockAddrs, write_lock \in BOOLEAN : GetAndLock(t, addr, write_lock)
  \/ \E t \in Callers : GetAndLockReadLock(t)
  \/ \E t \in Callers : GetAndLockWalk(t)
  \/ \E t \in Callers : GetAndLockVar(t)
  \/ \E t \in Callers : GetAndLockReturn(t)
  \/ \E t \in Callers : GetAndLockLock(t)
  \/ \E t \in Callers : GetAndLockCreate(t)
  \/ \E t \in Callers : SyncVarUnlock(t)
  \/ \E t \in Callers, addr \in LockAddrs : GetAndRemove(t, addr)
  \/ \E t \in Callers : GetAndRemoveLock(t)
  \/ \E t \in Callers : GetAndRemoveUnlink(t)
  \/ \E t \in Callers : GetAndRemoveDrain(t)
  \/ \E t \in Callers : GetAndRemoveReturn(t)
  \/ \E t \in Callers, op \in RegistryOps : RegistryCall(t, op)
  \/ \E t \in Callers : RegistryLock(t)
  \/ \E t \in Callers : RegistryReturn(t)
  \/ \E t \in Callers : FinalizeLoop(t)
  \/ \E t \in Callers : FinalizeReportLock(t)
  \/ \E t \in Callers : FinalizeReport(t)
  \/ CallsClose

(***************************************************************************)
(* The operations of the registry called concurrently. A caller fixes the  *)
(* operation and its arguments, takes thread_mtx, and runs the body in two *)
(* steps: it reads the registry and works out what the operation makes of  *)
(* it, then it stores that and returns. A thread makes one call at a time, *)
(* and a thread is started by one caller.                                  *)
(***************************************************************************)
BodyOps == {"ThreadCreate", "ThreadStart", "ThreadFinish", "ThreadJoin", "ThreadDetach"}

\* The arguments of a call: the calling thread s (for ThreadStart the tid
\* that starts), the uid (ThreadJoin, ThreadDetach), detached (ThreadCreate).
CallArgs(s, uid, detached) == [s |-> s, uid |-> uid, detached |-> detached]

\* The thread s is making a call.
InCall(s) == \E u \in Callers : call[u].args # <<>> /\ call[u].args[1].s = s

\* The caller t calls the operation op with the arguments a.
RegistryEnter(t, op, a) ==
  /\ proc = "run"
  /\ call[t].pc = "idle"
  /\ ~InCall(a.s)
  /\ IF op = "ThreadStart"
     THEN thread_seq > 0 /\ ~thr[a.s].live /\ NRunning < MaxRunning
     ELSE thr[a.s].live
  /\ op = "ThreadCreate" => budget > 0 /\ \E uid \in Uids : FreshUid(Cur, uid)
  /\ op \in {"ThreadJoin", "ThreadDetach"} => a.uid \in KnownUids
  /\ op \notin {"ThreadJoin", "ThreadDetach"} => a.uid = 0
  /\ op # "ThreadCreate" => ~a.detached
  /\ call' = [call EXCEPT ![t] = [Idle EXCEPT !.pc = "reg_lock", !.op = op, !.args = <<a>>]]
  /\ budget' = IF op = "ThreadCreate" THEN budget - 1 ELSE budget
  /\ UNCHANGED <<part_mtx, part_val, syncvar>>
  /\ UNCHANGED <<regVars, lockVars, calls_open, shadowVars, pureVars>>

\* What the body of the operation op, called with a, makes of the registry C.
RegistryBody(op, C, a) ==
  IF op = "ThreadCreate" THEN DoThreadCreate(C, a.s, CreatePc(a.s), NextUid(C), a.detached)
  ELSE IF op = "ThreadStart" THEN DoThreadStart(C, a.s)
  ELSE IF op = "ThreadFinish" THEN DoThreadFinish(C, a.s)
  ELSE IF op = "ThreadJoin" THEN DoThreadJoin(C, a.s, a.uid)
  ELSE DoThreadDetach(C, a.s, a.uid)

\* The body under thread_mtx, to its last store: the registry it read and
\* the registry it is about to leave.
RegistryRead(t) ==
  /\ proc = "run"
  /\ call[t].pc = "reg_body"
  /\ call[t].op = "ThreadCreate" => \E uid \in Uids : FreshUid(Cur, uid)
  /\ call' = [call EXCEPT
                ![t].pc = "reg_store",
                ![t].body = <<[read |-> Cur,
                               store |-> RegistryBody(call[t].op, Cur, call[t].args[1])]>>]
  /\ UNCHANGED <<part_mtx, part_val, syncvar>>
  /\ UNCHANGED <<regVars, budget, lockVars, calls_open, shadowVars, pureVars>>

\* The stores of the body, and the return.
RegistryStore(t) ==
  /\ call[t].pc = "reg_store"
  /\ BecomeReg(call[t].body[1].store)
  /\ thread_mtx' = RegistryScopeExit(thread_mtx, t)
  /\ call' = [call EXCEPT ![t] = Idle]
  /\ UNCHANGED <<part_mtx, part_val, syncvar, report_mtx>>
  /\ UNCHANGED <<budget, calls_open, shadowVars, pureVars>>

\* The callers that enter the registry at once: two of them.
RegistryCallers == {t \in Callers : t <= 2}

\* The calls of the registry made by several callers at once.
NextRegistry ==
  \/ \E t \in RegistryCallers, op \in BodyOps, s \in Tids, uid \in 0 .. MaxUid,
        detached \in BOOLEAN :
       RegistryEnter(t, op, CallArgs(s, uid, detached))
  \/ \E t \in RegistryCallers : RegistryCall(t, "ThreadFinalize")
  \/ \E t \in RegistryCallers : RegistryLock(t)
  \/ \E t \in RegistryCallers : RegistryRead(t)
  \/ \E t \in RegistryCallers : RegistryStore(t)
  \/ \E t \in RegistryCallers : FinalizeLoop(t)
  \/ \E t \in RegistryCallers : FinalizeReportLock(t)
  \/ \E t \in RegistryCallers : FinalizeReport(t)

\* Calls of ThreadCreate made at once, among calls of ThreadFinish.
CreateOps == {"ThreadCreate", "ThreadFinish"}

NextCreates ==
  \/ \E t \in RegistryCallers, op \in CreateOps, s \in Tids, detached \in BOOLEAN :
       RegistryEnter(t, op, CallArgs(s, 0, detached))
  \/ \E t \in RegistryCallers : RegistryLock(t)
  \/ \E t \in RegistryCallers : RegistryRead(t)
  \/ \E t \in RegistryCallers : RegistryStore(t)

(***************************************************************************)
(* The shadow memory. MemoryAccessRange splits a range into updates of one *)
(* byte or one cell; each update is compared with the shadow words of its  *)
(* cell and stored (MemoryAccessImpl, which follows section 4.2 of the     *)
(* specification: its code is in tsan_rtl.cc).                             *)
(***************************************************************************)
Cells == 0 .. (MaxCells - 1)

\* A shadow word that is 0: no access recorded.
ShadowZero == [tid |-> 0, epoch |-> 0, addr0 |-> 0, size_log |-> 0, write |-> FALSE]

\* Shadow cur(fast_state); cur.SetWrite(is_write); cur.SetAddr0AndSizeLog(..)
ShadowWord(tid, epoch, addr0, size_log, is_write) ==
  [tid |-> tid, epoch |-> epoch, addr0 |-> addr0, size_log |-> size_log,
   write |-> is_write]

\* One call of MemoryAccessImpl: the address, kAccessSizeLog, and the shadow
\* cell shadow_mem points at (in cells).
Update(addr, size_log, sm) == [addr |-> addr, size_log |-> size_log, sm |-> sm]

\* for (; addr % kShadowCell && size; addr++, size--)
RECURSIVE HeadLoop(_, _, _)
HeadLoop(addr, size, sm) ==
  IF addr % kShadowCell # 0 /\ size # 0
  THEN <<Update(addr, 0, sm)>> \o HeadLoop(addr + 1, size - 1, sm)
  ELSE <<>>

\* Variant: a range that ends with a whole cell is left to the last loop.
RECURSIVE MiddleLoop_over(_, _, _)
MiddleLoop_over(addr, size, sm) ==
  IF size > kShadowCell
  THEN <<Update(addr, 3, sm)>> \o MiddleLoop_over(addr + kShadowCell, size - kShadowCell, sm + 1)
  ELSE <<>>

\* for (; size >= kShadowCell; addr += kShadowCell, size -= kShadowCell)
RECURSIVE MiddleLoop(_, _, _)
MiddleLoop(addr, size, sm) ==
  IF size >= kShadowCell
  THEN <<Update(addr, 3, sm)>> \o MiddleLoop(addr + kShadowCell, size - kShadowCell, sm + 1)
  ELSE <<>>

\* for (; size; addr++, size--)
RECURSIVE TailLoop(_, _, _)
TailLoop(addr, size, sm) ==
  IF size # 0
  THEN <<Update(addr, 0, sm)>> \o TailLoop(addr + 1, size - 1, sm)
  ELSE <<>>

\* Variant: shadow_mem stays on the first cell after the unaligned beginning.
AfterHead_stay(sm, unaligned) == sm

\* if (unaligned) shadow_mem += kShadowCnt;   (sm counts cells)
AfterHead(sm, unaligned) == IF unaligned THEN sm + 1 ELSE sm

\* MemoryAccessRange, from "bool unaligned" on: the calls of MemoryAccessImpl
\* in order.
RangeUpdates(addr, size) ==
  LET sm0 == addr \div kShadowCell
      unaligned == addr % kShadowCell # 0
      head == HeadLoop(addr, size, sm0)
      addr1 == addr + Len(head)
      size1 == size - Len(head)
      sm1 == AfterHead(sm0, unaligned)
      middle == MiddleLoop(addr1, size1, sm1)
      addr2 == addr1 + kShadowCell * Len(middle)
      size2 == size1 - kShadowCell * Len(middle)
      sm2 == sm1 + Len(middle)
  IN  head \o middle \o TailLoop(addr2, size2, sm2)

\* The bytes of its cell that a shadow word covers.
ShadowBytes(w) == w.addr0 .. (w.addr0 + 2 ^ w.size_log - 1)

\* old.offset/size == cur.offset/size
SameRange(old, cur) == old.addr0 = cur.addr0 /\ old.size_log = cur.size_log

\* The byte ranges of old and cur overlap.
Overlap(old, cur) == ShadowBytes(old) \cap ShadowBytes(cur) # {}

\* Variant: no two accesses count as the same thread's.
SameThread_never(old, cur) == FALSE

\* old.tid == cur.tid
SameThread(old, cur) == old.tid = cur.tid

\* thr.clock.get(old.tid) >= old_epoch: the accesses are ordered.
HappensBefore(old, clock) == ClockGet(clock, old.tid) >= old.epoch

\* Variant: no two accesses count as two reads.
BothReads_never(old, cur) == FALSE

\* Both accesses are reads (neither is a write).
BothReads(old, cur) == ~old.write /\ ~cur.write

\* Step 5: cur goes into the zero slot remembered, else into the slot the
\* epoch selects in turn.
Install(cell, cur, free) ==
  IF free # 0 THEN [cell EXCEPT ![free] = cur]
  ELSE [cell EXCEPT ![(cur.epoch % kShadowCnt) + 1] = cur]

\* Step 4 from the shadow word i on, then step 5: the cell as it is left, and
\* the previous access of the race detected, if any.
RECURSIVE ScanCell(_, _, _, _, _)
ScanCell(cell, cur, clock, i, free) ==
  IF i > kShadowCnt
  THEN [cell |-> Install(cell, cur, free), race |-> <<>>]
  ELSE LET old == cell[i]
       IN  IF old = ShadowZero
           THEN ScanCell(cell, cur, clock, i + 1, i)
           ELSE IF SameThread(old, cur) /\ SameRange(old, cur)
           THEN [cell |-> [cell EXCEPT ![i] = cur], race |-> <<>>]
           ELSE IF ~Overlap(old, cur)
           THEN ScanCell(cell, cur, clock, i + 1, free)
           ELSE IF SameThread(old, cur)
           THEN ScanCell(cell, cur, clock, i + 1, free)
           ELSE IF HappensBefore(old, clock)
           THEN ScanCell(cell, cur, clock, i + 1, free)
           ELSE IF BothReads(old, cur)
           THEN ScanCell(cell, cur, clock, i + 1, free)
           ELSE [cell |-> Install(cell, cur, free), race |-> <<old>>]

\* MemoryAccessImpl(thr, addr, kAccessSizeLog, is_write, fast_state, shadow_mem, cur)
MemoryAccessImpl(cell, cur, clock) == ScanCell(cell, cur, clock, 1, 0)

\* What is recorded of a race: the current access, the previous one, and, of
\* the moment of the report, the current thread's clock component for the
\* previous thread, the ThreadCreate call that returned the current thread's
\* tid, and how often the previous thread's tid had been recycled.
RaceReport(C, cur, old, clock) ==
  [cur |-> cur, old |-> old, clk |-> ClockGet(clock, old.tid),
   par |-> C.parent[cur.tid], old_reuse |-> C.threads[old.tid].reuse_count]

\* The updates ups of one MemoryAccessRange call of the thread s, applied in
\* order to the shadow memory sh: the shadow memory and the races after them.
RECURSIVE ApplyUpdates(_, _, _, _, _, _)
ApplyUpdates(C, s, is_write, ups, sh, rs) ==
  IF ups = <<>> THEN [shadow |-> sh, races |-> rs]
  ELSE LET u == Head(ups)
           st == C.thr[s]
           cur == ShadowWord(st.tid, st.epoch, u.addr % kShadowCell, u.size_log, is_write)
           res == MemoryAccessImpl(sh[u.sm], cur, st.clock)
           rs1 == IF res.race = <<>> THEN rs
                  ELSE rs \cup {RaceReport(C, cur, res.race[1], st.clock)}
       IN  ApplyUpdates(C, s, is_write, Tail(ups), [sh EXCEPT ![u.sm] = res.cell], rs1)

\* The ranges passed: inside the application memory, from the start of the
\* first cell or from its second byte, empty, of one byte, or of the size of
\* a cell.
AccessAddrs == {a \in 0 .. (kShadowCell - 1) : a < 2}
AccessSizes == {0, 1, kShadowCell}

(***************************************************************************)
(* void MemoryAccessRange(thr, pc, addr, size, is_write), called by s,     *)
(* with the shadow memory.                                                 *)
(***************************************************************************)
MemoryAccessRangeShadow(s, addr, size, is_write) ==
  /\ proc = "run"
  /\ thr[s].live
  /\ mops > 0
  /\ addr + size <= kShadowCell * MaxCells
  /\ LET C1 == DoMemoryAccessRange(Cur, s, size)
         ups == IF AccessSkipped(size, thr[s].ignore) THEN <<>>
                ELSE RangeUpdates(addr, size)
         res == ApplyUpdates(C1, s, is_write, ups, shadow, races)
     IN  /\ BecomeReg(C1)
         /\ shadow' = res.shadow
         /\ races' = res.races
         /\ probed' = {ups[k].sm : k \in 1 .. Len(ups)}
  /\ mops' = mops - 1
  /\ UNCHANGED <<budget, syncVars, lockVars, calls_open, pureVars>>

InitShadowMem ==
  /\ shadow = [c \in Cells |-> [i \in 1 .. kShadowCnt |-> ShadowZero]]
  /\ races = {}
  /\ mops = MaxMops
  /\ probed = {}

\* Threads that access memory, and the creation and the start of a thread
\* that order them.
NextShadow ==
  \/ \E s \in Tids, detached \in BOOLEAN : ThreadCreate(s, detached)
  \/ \E tid \in Tids : ThreadStart(tid)
  \/ \E s \in Tids, addr \in AccessAddrs, size \in AccessSizes, is_write \in BOOLEAN :
       MemoryAccessRangeShadow(s, addr, size, is_write)

\* The front-end's ignore begin / ignore end for the thread s: the ignore
\* bit of its FastState is set or cleared.
IgnoreCtl(s, on) ==
  /\ proc = "run"
  /\ thr[s].live
  /\ thr[s].ignore # on
  /\ BecomeReg([Cur EXCEPT !.thr[s].ignore = on])
  /\ UNCHANGED <<budget, syncVars, lockVars, calls_open, shadowVars, pureVars>>

\* Threads that access memory and that ignore their accesses for a while.
NextIgnore ==
  \/ \E s \in Tids, on \in BOOLEAN : IgnoreCtl(s, on)
  \/ \E s \in Tids, addr \in AccessAddrs, size \in AccessSizes, is_write \in BOOLEAN :
       MemoryAccessRangeShadow(s, addr, size, is_write)

(***************************************************************************)
(* Initial states: the constructed Context, and states that runs of the    *)
(* operations from it reach.                                               *)
(***************************************************************************)
\* Initialize(): thread 0 is created and started.
Booted == DoThreadStart(DoThreadCreate(Constructed, 0, 0, 0, TRUE), 0)

\* The thread s creates a thread, which starts.
Spawn(C, s, detached) ==
  LET C1 == DoThreadCreate(C, s, CreatePc(s), NextUid(C), detached)
  IN  DoThreadStart(C1, C.thread_seq)

\* The thread s creates a detached thread, which starts, makes one memory
\* access and finishes; k times.
RECURSIVE DeadChain(_, _, _)
DeadChain(C, s, k) ==
  IF k = 0 THEN C
  ELSE LET C1 == DeadChain(C, s, k - 1)
           t == C1.thread_seq
       IN  DoThreadFinish(DoMemoryAccessRange(Spawn(C1, s, TRUE), t, 1), t)

\* The thread s creates a joinable thread, which starts, makes one memory
\* access and finishes; k times.
RECURSIVE FinishedChain(_, _, _)
FinishedChain(C, s, k) ==
  IF k = 0 THEN C
  ELSE LET C1 == FinishedChain(C, s, k - 1)
           t == C1.thread_seq
       IN  DoThreadFinish(DoMemoryAccessRange(Spawn(C1, s, FALSE), t, 1), t)

\* Thread 0 creates a detached thread, which starts, and exits itself.
HandOver == DoThreadFinish(Spawn(Booted, 0, TRUE), 0)

InitStates ==
  {Constructed}
    \* the quarantine fills, up to one over its size
    \cup {DeadChain(Booted, 0, k) : k \in 1 .. (kThreadQuarantineSize + 1)}
    \* the thread table is full, one thread is Dead
    \cup {FinishedChain(DeadChain(Booted, 0, 1), 0, kMaxTid - 2)}
    \* thread 0 is the oldest Dead thread of a full quarantine
    \cup {DeadChain(HandOver, 1, kThreadQuarantineSize)}

\* The thread table is full, no thread is Dead.
LimitStates ==
  {Constructed, FinishedChain(Booted, 0, kMaxTid - 1)}

\* The calls of ThreadCreate explored from the initial state C: MaxNew, but
\* from a full thread table one.
NewFrom(C) ==
  IF C.thread_seq >= kMaxTid THEN 1 ELSE MaxNew

\* No function is followed on its own.
NoCall == [called |-> FALSE]

\* No part of the program is followed on its own.
InitParts ==
  /\ frontend = NoCall
  /\ stacktrace = NoCall

\* No call is followed on its own.
InitCalls ==
  /\ range = NoCall
  /\ ignorefile = NoCall
  /\ matching = NoCall
  /\ fini = NoCall

InitPure ==
  /\ range = NoCall
  /\ ignorefile = NoCall
  /\ matching = NoCall
  /\ fini = NoCall
  /\ InitParts

\* The run-time starts in the state C, with n calls of ThreadCreate to explore.
InitRtl(C, n) ==
  /\ threads = C.threads
  /\ thread_seq = C.thread_seq
  /\ dead_list_head = C.dead_list_head
  /\ dead_list_tail = C.dead_list_tail
  /\ dead_list_size = C.dead_list_size
  /\ nreported = C.nreported
  /\ thr = C.thr
  /\ reports = C.reports
  /\ proc = C.proc
  /\ ev = C.ev
  /\ reached = C.reached
  /\ parent = C.parent
  /\ died = C.died
  /\ budget = n
  /\ InitSyncTab
  /\ thread_mtx = FreeMutex
  /\ report_mtx = FreeMutex
  /\ calls_open = TRUE
  /\ InitShadowMem

\* The run starts in the state C, with n calls of ThreadCreate to explore.
InitState(C, n) == InitRtl(C, n) /\ InitPure

InitFrom(states) == \E C \in states : InitState(C, NewFrom(C))

Init == InitFrom(InitStates)

Spec == Init /\ [][Next]_vars

\* The runs that start at the thread limit.
InitLimit == InitFrom(LimitStates)

SpecLimit == InitLimit /\ [][Next]_vars

\* The runs of the sync table, beside a registry that was only constructed.
InitSync == InitFrom({Constructed})

SpecSync == InitSync /\ [][NextSyncTab]_vars

\* The runs of the sync table and of the registry's locks, beside a registry
\* with two threads that ThreadFinalize reports.
InitLocks == InitFrom({FinishedChain(Booted, 0, 2)})

SpecLocks == InitLocks /\ [][NextLocks]_vars

\* The same runs, with every thread scheduled: a thread that can take a step
\* inside its call, from some point on without interruption, takes it.
SpecLive == SpecLocks /\ \A t \in Callers : WF_vars(Progress(t))

\* The runs of threads that access memory: from two running threads, and
\* from a thread that runs beside a quarantine over its size whose oldest
\* entry is thread 0.
InitShadow ==
  \E C \in {Spawn(Booted, 0, FALSE), DeadChain(HandOver, 1, kThreadQuarantineSize)} :
    InitState(C, 1)

SpecShadow == InitShadow /\ [][NextShadow]_vars

\* The runs of callers that enter the registry at once: beside two running
\* threads, and beside a full quarantine.
InitRegistry ==
  \E C \in {Spawn(Booted, 0, FALSE), DeadChain(Booted, 0, kThreadQuarantineSize + 1)} :
    InitState(C, 1)

SpecRegistry == InitRegistry /\ [][NextRegistry]_vars

\* The runs of two threads that call ThreadCreate at once, twice in all:
\* beside an empty quarantine, and beside one over its size.
InitCreates ==
  \E C \in {Spawn(Booted, 0, FALSE),
            DeadChain(Spawn(Booted, 0, FALSE), 0, kThreadQuarantineSize + 1)} :
    InitState(C, 2)

SpecCreates == InitCreates /\ [][NextCreates]_vars

\* The runs in which a thread recycles the tid of a thread it did not create:
\* thread 0 creates a joinable thread, and then the detached threads that
\* fill the quarantine.
RecycleStates ==
  {Constructed, DeadChain(Spawn(Booted, 0, FALSE), 0, kThreadQuarantineSize)}

InitRecycle == InitFrom(RecycleStates)

SpecRecycle == InitRecycle /\ [][Next]_vars

\* The runs of two threads that access memory and ignore.
InitIgnore == InitState(Spawn(Booted, 0, FALSE), 0)

SpecIgnore == InitIgnore /\ [][NextIgnore]_vars

(***************************************************************************)
(* MemoryAccessRange on its own: the updates a range is split into.        *)
(***************************************************************************)
RangeAddrs == 0 .. MaxRangeAddr
RangeSizes == 0 .. MaxRangeSize

\* MemoryAccessRange(thr, pc, addr, size, is_write) of a thread that does not
\* ignore: the calls of MemoryAccessImpl it makes.
RangeCall ==
  /\ ~range.called
  /\ range' = [range EXCEPT
                 !.called = TRUE,
                 !.updates = IF range.size = 0 THEN <<>>
                             ELSE RangeUpdates(range.addr, range.size)]
  /\ UNCHANGED <<rtlVars, ignorefile, matching, fini, partVars>>

InitRange ==
  /\ InitRtl(Constructed, 0)
  /\ range \in [called : {FALSE}, addr : RangeAddrs, size : RangeSizes, updates : {<<>>}]
  /\ ignorefile = NoCall
  /\ matching = NoCall
  /\ fini = NoCall
  /\ InitParts

SpecRange == InitRange /\ [][RangeCall]_vars

(***************************************************************************)
(* The ignore file: ReadIgnoresFromString on its own.  A string is the     *)
(* sequence of its characters.                                             *)
(***************************************************************************)
NL == "\n"

Blank(ch) == ch = " " \/ ch = "\t"

\* The loop of SplitStringIntoLinesAndRemoveBlanksAndComments from pos on.
RECURSIVE SplitFrom(_, _, _, _, _)
SplitFrom(str, pos, cur_line, in_comment, lines) ==
  IF pos > Len(str) THEN lines
  ELSE LET ch == str[pos]
       IN  IF ch = NL
           THEN SplitFrom(str, pos + 1, <<>>, FALSE,
                          IF cur_line # <<>> THEN Append(lines, cur_line) ELSE lines)
           ELSE IF Blank(ch)
           THEN SplitFrom(str, pos + 1, cur_line, in_comment, lines)
           ELSE IF ch = "#"
           THEN SplitFrom(str, pos + 1, cur_line, TRUE, lines)
           ELSE SplitFrom(str, pos + 1,
                          IF in_comment THEN cur_line ELSE Append(cur_line, ch),
                          in_comment, lines)

SplitStringIntoLinesAndRemoveBlanksAndComments(str) ==
  SplitFrom(str, 1, <<>>, FALSE, <<>>)

\* input.find(prefix) == 0
HasPrefix(input, prefix) ==
  /\ Len(prefix) <= Len(input)
  /\ SubSeq(input, 1, Len(prefix)) = prefix

\* CutStringPrefixIfPresent: the output, when the prefix is present.
CutStringPrefix(input, prefix) == SubSeq(input, Len(prefix) + 1, Len(input))

PrefixObj == <<"o", "b", "j", ":">>
PrefixSrc == <<"s", "r", "c", ":">>
PrefixFun == <<"f", "u", "n", ":">>
PrefixFunR == <<"f", "u", "n", "_", "r", ":">>
PrefixFunHist == <<"f", "u", "n", "_", "h", "i", "s", "t", ":">>

Star == <<"*">>

\* The ignore triples of a pattern for one component.
IgnoreObj(x) == [fun |-> Star, obj |-> x, file |-> Star]
IgnoreFile(x) == [fun |-> Star, obj |-> Star, file |-> x]
IgnoreFun(x) == [fun |-> x, obj |-> Star, file |-> Star]

EmptyIgnoreLists == [ignores |-> <<>>, ignores_r |-> <<>>, ignores_hist |-> <<>>]

\* bool ReadIgnoreLine(input_line, ignore_lists): the lists and what it returns.
ReadIgnoreLine(input_line, L) ==
  IF HasPrefix(input_line, PrefixObj)
  THEN [parsed |-> TRUE,
        lists |-> [L EXCEPT !.ignores = Append(@, IgnoreObj(CutStringPrefix(input_line, PrefixObj)))]]
  ELSE IF HasPrefix(input_line, PrefixSrc)
  THEN [parsed |-> TRUE,
        lists |-> [L EXCEPT !.ignores = Append(@, IgnoreFile(CutStringPrefix(input_line, PrefixSrc)))]]
  ELSE IF HasPrefix(input_line, PrefixFun)
  THEN [parsed |-> TRUE,
        lists |-> [L EXCEPT !.ignores = Append(@, IgnoreFun(CutStringPrefix(input_line, PrefixFun)))]]
  ELSE IF HasPrefix(input_line, PrefixFunR)
  THEN [parsed |-> TRUE,
        lists |-> [L EXCEPT !.ignores_r = Append(@, IgnoreFun(CutStringPrefix(input_line, PrefixFunR)))]]
  ELSE IF HasPrefix(input_line, PrefixFunHist)
  THEN [parsed |-> TRUE,
        lists |-> [L EXCEPT !.ignores_hist = Append(@, IgnoreFun(CutStringPrefix(input_line, PrefixFunHist)))]]
  ELSE [parsed |-> FALSE, lists |-> L]

\* The loop of ReadIgnoresFromString over the lines from j on: the lists, and
\* the line printed before CHECK(0) ends the process.
RECURSIVE ReadLines(_, _, _)
ReadLines(lines, j, L) ==
  IF j > Len(lines) THEN [lists |-> L, aborted |-> FALSE, printed |-> <<>>]
  ELSE LET r == ReadIgnoreLine(lines[j], L)
       IN  IF r.parsed THEN ReadLines(lines, j + 1, r.lists)
           ELSE [lists |-> r.lists, aborted |-> TRUE, printed |-> lines[j]]

ReadIgnoresFromString(ignoreString, L) ==
  ReadLines(SplitStringIntoLinesAndRemoveBlanksAndComments(ignoreString), 1, L)

\* The texts read: up to MaxPieces of these pieces, one after the other.
Pieces == {PrefixObj, PrefixSrc, PrefixFun, PrefixFunR, PrefixFunHist,
           <<"a">>, <<" ">>, <<"#">>, <<NL>>}

RECURSIVE Concat(_)
Concat(ps) == IF ps = <<>> THEN <<>> ELSE Head(ps) \o Concat(Tail(ps))

Texts == {Concat(ps) : ps \in UNION {[1 .. n -> Pieces] : n \in 0 .. MaxPieces}}

\* ReadIgnoresFromString(ignoreString), g_ignore_lists being empty.
ReadIgnoresCall ==
  /\ ~ignorefile.called
  /\ LET r == ReadIgnoresFromString(ignorefile.text, EmptyIgnoreLists)
     IN  ignorefile' = [called |-> TRUE, text |-> ignorefile.text, lists |-> r.lists,
                        aborted |-> r.aborted, printed |-> r.printed]
  /\ UNCHANGED <<rtlVars, range, matching, fini, partVars>>

InitIgnores ==
  /\ InitRtl(Constructed, 0)
  /\ range = NoCall
  /\ ignorefile \in [called : {FALSE}, text : Texts, lists : {EmptyIgnoreLists},
                     aborted : {FALSE}, printed : {<<>>}]
  /\ matching = NoCall
  /\ fini = NoCall
  /\ InitParts

SpecIgnores == InitIgnores /\ [][ReadIgnoresCall]_vars

(***************************************************************************)
(* Matching against the ignore triples: TripleVectorMatchKnown on its own. *)
(***************************************************************************)
\* bool StringMatch(pattern, s): * stands for any characters, ? for one.
RECURSIVE StringMatch(_, _)
StringMatch(pattern, s) ==
  IF pattern = <<>> THEN s = <<>>
  ELSE IF Head(pattern) = "*"
  THEN StringMatch(Tail(pattern), s) \/ (s # <<>> /\ StringMatch(pattern, Tail(s)))
  ELSE IF s = <<>> THEN FALSE
  ELSE (Head(pattern) = "?" \/ Head(pattern) = Head(s)) /\ StringMatch(Tail(pattern), Tail(s))

\* Each of fun, obj, file is empty or matches the pattern of the triple t.
TripleMatch(t, fun, obj, file) ==
  /\ (Len(fun) = 0 \/ StringMatch(t.fun, fun))
  /\ (Len(obj) = 0 \/ StringMatch(t.obj, obj))
  /\ (Len(file) = 0 \/ StringMatch(t.file, file))

\* Variant: no match is taken for a trivial one.
TrivialMatch_never(t, fun, obj, file) == FALSE

\* Each of fun, obj, file is empty or stands against the pattern "*".
TrivialMatch(t, fun, obj, file) ==
  /\ (Len(fun) = 0 \/ t.fun = Star)
  /\ (Len(obj) = 0 \/ t.obj = Star)
  /\ (Len(file) = 0 \/ t.file = Star)

\* The loop of TripleVectorMatchKnown from i on.
RECURSIVE TripleVectorMatchFrom(_, _, _, _, _)
TripleVectorMatchFrom(v, i, fun, obj, file) ==
  IF i > Len(v) THEN FALSE
  ELSE IF TripleMatch(v[i], fun, obj, file) /\ ~TrivialMatch(v[i], fun, obj, file)
  THEN TRUE
  ELSE TripleVectorMatchFrom(v, i + 1, fun, obj, file)

TripleVectorMatchKnown(v, fun, obj, file) == TripleVectorMatchFrom(v, 1, fun, obj, file)

\* The patterns of the triples and the names matched against them.
MatchPatterns == {Star, <<"a">>, <<"a", "*">>}
MatchNames == {<<>>, <<"a">>, <<"a", "b">>}
IgnoreTriples == [fun : MatchPatterns, obj : MatchPatterns, file : MatchPatterns]
TripleVectors == UNION {[1 .. n -> IgnoreTriples] : n \in 0 .. MaxTriples}

TripleVectorMatchCall ==
  /\ ~matching.called
  /\ matching' = [matching EXCEPT
                    !.called = TRUE,
                    !.result = TripleVectorMatchKnown(matching.v, matching.fun,
                                                      matching.obj, matching.file)]
  /\ UNCHANGED <<rtlVars, range, ignorefile, fini, partVars>>

InitMatch ==
  /\ InitRtl(Constructed, 0)
  /\ range = NoCall
  /\ ignorefile = NoCall
  /\ matching \in [called : {FALSE}, v : TripleVectors, fun : MatchNames,
                   obj : MatchNames, file : MatchNames, result : {FALSE}]
  /\ fini = NoCall
  /\ InitParts

SpecMatch == InitMatch /\ [][TripleVectorMatchCall]_vars

(***************************************************************************)
(* The end of the process under Valgrind: the client request at main's     *)
(* return and ts_fini.                                                     *)
(***************************************************************************)
ExitCodes == 0 .. MaxExitCode

\* exit(code), the application having ended with the code app.
Exit(code, app) == [fini EXCEPT !.exited = TRUE, !.code = code, !.app = app]

\* ts_handle_client_request, case TSREQ_MAIN_OUT, main returning ret.
MainOut(ret) ==
  /\ ~fini.exited
  /\ ~fini.has_exited_main
  /\ fini' = IF fini.exit_after_main
             THEN [Exit(ret, ret) EXCEPT !.has_exited_main = TRUE]
             ELSE [fini EXCEPT !.has_exited_main = TRUE]
  /\ UNCHANGED <<rtlVars, range, ignorefile, matching, partVars>>

\* void ts_fini(Int exitcode), the application ending with exitcode; when it
\* returns the core ends the process with exitcode.
TsFini(exitcode) ==
  /\ ~fini.exited
  /\ fini' = IF fini.error_exitcode # 0 /\ fini.errors > 0
             THEN Exit(fini.error_exitcode, exitcode)
             ELSE Exit(exitcode, exitcode)
  /\ UNCHANGED <<rtlVars, range, ignorefile, matching, partVars>>

NextFini ==
  \/ \E ret \in ExitCodes : MainOut(ret)
  \/ \E exitcode \in ExitCodes : TsFini(exitcode)

\* The flags, and the errors that are found by the end of the process.
InitFini ==
  /\ InitRtl(Constructed, 0)
  /\ range = NoCall
  /\ ignorefile = NoCall
  /\ matching = NoCall
  /\ fini \in [error_exitcode : ExitCodes, exit_after_main : BOOLEAN,
               errors : 0 .. MaxErrors, has_exited_main : {FALSE},
               exited : {FALSE}, code : {0}, app : {0}]
  /\ InitParts

SpecFini == InitFini /\ [][NextFini]_vars

(***************************************************************************)
(* The Valgrind front-end (ts_valgrind.cc): its threads g_valgrind_threads, *)
(* the map g_ptid_to_ts_tid, and what it has sent to the engine.            *)
(***************************************************************************)
\* The Valgrind thread ids followed: two slots of g_valgrind_threads.
VgTids == {1, 2}

\* The ids the front-end gives its threads: g_uniq_thread_id_counter++.
TsTids == 0 .. (MaxUniq - 1)

Ptids == 1 .. MaxPtid

\* ValgrindThread::Clear()
ClearedThread ==
  [zero_based_uniq_tid |-> 0 - 1, call_stack |-> <<>>, ignore_accesses |-> 0,
   ignore_accesses_in_current_trace |-> FALSE]

\* The front-end after ts_post_clo_init, and the threads 1 and 2 created one
\* after the other. nest: the IGNORE_ALL_ACCESSES_BEGIN requests of a thread
\* that are open. ncall, nexit, nmop, nskip: the calls of
\* ThreadSanitizerHandleRtnCall, ThreadSanitizerHandleRtnExit and
\* ThreadSanitizerHandleMemoryAccess made per thread id, and the accesses
\* not forwarded. join: the last THR_JOIN_AFTER event put.
FrontendStarted ==
  [thr |-> [t \in VgTids |-> [ClearedThread EXCEPT !.zero_based_uniq_tid = t - 1]],
   uniq |-> 2,
   ptid_to_ts_tid |-> [p \in Ptids |-> Nil],
   registered |-> [p \in Ptids |-> {}],
   global_ignore |-> FALSE,
   failed |-> FALSE,
   nest |-> [t \in VgTids |-> 0],
   ncall |-> [i \in TsTids |-> 0],
   nexit |-> [i \in TsTids |-> 0],
   nmop |-> [i \in TsTids |-> 0],
   nskip |-> [i \in TsTids |-> 0],
   join |-> <<>>]

\* VgTidToTsTid(vg_tid)
VgTidToTsTid(F, vg_tid) == F.thr[vg_tid].zero_based_uniq_tid

\* rtn_call(sp_post_call_insn, pc_post_call_insn, ignore_below), run by the
\* thread vg_tid: the record is pushed and the engine is told of the call.
DoRtnCall(F, vg_tid, sp) ==
  [F EXCEPT !.thr[vg_tid].call_stack = Append(@, sp),
            !.ncall[VgTidToTsTid(F, vg_tid)] = @ + 1]

\* Variant: the frame is popped whatever the address.
FramePopped_always(a, cur_top) == TRUE

\* evh__die_mem_stack_helper: if (a < cur_top) break; otherwise the top frame
\* is popped.
FramePopped(a, cur_top) == ~(a < cur_top)

\* Variant: the frame is popped and the engine is not told.
PopFrame_silent(F, vg_tid) ==
  [F EXCEPT !.thr[vg_tid].call_stack = SubSeq(@, 1, Len(@) - 1)]

\* call_stack.pop_back(); ThreadSanitizerHandleRtnExit(ts_tid);
PopFrame(F, vg_tid) ==
  [F EXCEPT !.thr[vg_tid].call_stack = SubSeq(@, 1, Len(@) - 1),
            !.nexit[VgTidToTsTid(F, vg_tid)] = @ + 1]

\* evh__die_mem_stack_helper(a, len), run by the thread vg_tid: the loop ends
\* with a break, so at most the top frame is popped.
DoDieMemStack(F, vg_tid, a) ==
  LET call_stack == F.thr[vg_tid].call_stack
  IN  IF call_stack # <<>> /\ FramePopped(a, call_stack[Len(call_stack)])
      THEN PopFrame(F, vg_tid)
      ELSE F

RtnCall(vg_tid, sp) ==
  /\ frontend.ncall[VgTidToTsTid(frontend, vg_tid)] < MaxCalls
  /\ frontend' = DoRtnCall(frontend, vg_tid, sp)
  /\ UNCHANGED <<rtlVars, callVars, stacktrace>>

DieMemStack(vg_tid, a) ==
  /\ frontend' = DoDieMemStack(frontend, vg_tid, a)
  /\ UNCHANGED <<rtlVars, callVars, stacktrace>>

\* The calls and the stack shrinks of two threads.
NextStack ==
  \/ \E vg_tid \in VgTids, sp \in 0 .. MaxSp : RtnCall(vg_tid, sp)
  \/ \E vg_tid \in VgTids, a \in 0 .. MaxSp : DieMemStack(vg_tid, a)

InitFrontend ==
  /\ InitRtl(Constructed, 0)
  /\ InitCalls
  /\ frontend = FrontendStarted
  /\ stacktrace = NoCall

SpecStack == InitFrontend /\ [][NextStack]_vars

(***************************************************************************)
(* Ignoring accesses in the front-end: trace entries, the requests         *)
(* IGNORE_ALL_ACCESSES_BEGIN/END and GLOBAL_IGNORE_ON/OFF, and Mop.        *)
(***************************************************************************)
\* Variant: the flag is cleared and the count is left as it is.
TraceWithdraw_flagonly(vt) ==
  [vt EXCEPT !.ignore_accesses_in_current_trace = FALSE]

\* thr->ignore_accesses--; thr->ignore_accesses_in_current_trace = false;
TraceWithdraw(vt) ==
  [vt EXCEPT !.ignore_accesses = @ - 1,
              !.ignore_accesses_in_current_trace = FALSE]

\* evh__on_trace_entry(trace_no) run by the thread vg_tid; skip: the result
\* of LiteRaceSkipTrace.
DoTraceEntry(F, vg_tid, skip) ==
  LET thr0 == F.thr[vg_tid]
      bad == thr0.ignore_accesses_in_current_trace /\ ~(thr0.ignore_accesses > 0)
      thr1 == IF thr0.ignore_accesses_in_current_trace THEN TraceWithdraw(thr0) ELSE thr0
      thr2 == IF thr1.ignore_accesses # 0 THEN thr1
              ELSE IF F.global_ignore \/ skip
                   THEN [thr1 EXCEPT !.ignore_accesses_in_current_trace = TRUE,
                                     !.ignore_accesses = @ + 1]
                   ELSE thr1
  IN  IF bad THEN [F EXCEPT !.failed = TRUE] ELSE [F EXCEPT !.thr[vg_tid] = thr2]

\* case TSREQ_IGNORE_ALL_ACCESSES_BEGIN
DoIgnoreAllAccessesBegin(F, vg_tid) ==
  [F EXCEPT !.thr[vg_tid].ignore_accesses = @ + 1, !.nest[vg_tid] = @ + 1]

\* case TSREQ_IGNORE_ALL_ACCESSES_END
DoIgnoreAllAccessesEnd(F, vg_tid) ==
  LET F1 == [F EXCEPT !.thr[vg_tid].ignore_accesses = @ - 1, !.nest[vg_tid] = @ - 1]
  IN  IF F1.thr[vg_tid].ignore_accesses >= 0 THEN F1 ELSE [F1 EXCEPT !.failed = TRUE]

\* Mop(a, is_w, size) run by the thread vg_tid
DoMop(F, vg_tid) ==
  IF F.thr[vg_tid].ignore_accesses # 0
  THEN [F EXCEPT !.nskip[VgTidToTsTid(F, vg_tid)] = @ + 1]
  ELSE [F EXCEPT !.nmop[VgTidToTsTid(F, vg_tid)] = @ + 1]

FrontendStep(F) ==
  /\ ~frontend.failed
  /\ frontend' = F
  /\ UNCHANGED <<rtlVars, callVars, stacktrace>>

TraceEntry(vg_tid, skip) == FrontendStep(DoTraceEntry(frontend, vg_tid, skip))

\* A thread opens at most MaxNest requests.
IgnoreAllAccessesBegin(vg_tid) ==
  /\ frontend.nest[vg_tid] < MaxNest
  /\ FrontendStep(DoIgnoreAllAccessesBegin(frontend, vg_tid))

\* The requests are properly nested: an END closes an open BEGIN.
IgnoreAllAccessesEnd(vg_tid) ==
  /\ frontend.nest[vg_tid] > 0
  /\ FrontendStep(DoIgnoreAllAccessesEnd(frontend, vg_tid))

\* case TSREQ_GLOBAL_IGNORE_ON / TSREQ_GLOBAL_IGNORE_OFF
GlobalIgnore(on) ==
  /\ frontend.global_ignore # on
  /\ FrontendStep([frontend EXCEPT !.global_ignore = on])

\* A thread makes at most MaxCalls accesses.
Mop(vg_tid) ==
  /\ LET i == VgTidToTsTid(frontend, vg_tid)
     IN  frontend.nmop[i] + frontend.nskip[i] < MaxCalls
  /\ FrontendStep(DoMop(frontend, vg_tid))

NextSampling ==
  \/ \E vg_tid \in VgTids, skip \in BOOLEAN : TraceEntry(vg_tid, skip)
  \/ \E vg_tid \in VgTids : IgnoreAllAccessesBegin(vg_tid)
  \/ \E vg_tid \in VgTids : IgnoreAllAccessesEnd(vg_tid)
  \/ \E on \in BOOLEAN : GlobalIgnore(on)
  \/ \E vg_tid \in VgTids : Mop(vg_tid)

SpecSampling == InitFrontend /\ [][NextSampling]_vars

(***************************************************************************)
(* Joins in the front-end: g_ptid_to_ts_tid, TSREQ_SET_MY_PTHREAD_T and    *)
(* TSREQ_PTHREAD_JOIN_POST, with threads that are created and exit.        *)
(***************************************************************************)
\* The thread vg_tid is between its creation and its exit.
Alive(F, vg_tid) == F.thr[vg_tid].zero_based_uniq_tid # 0 - 1

\* evh__pre_thread_ll_create(parent, child)
DoThreadLlCreate(F, child) ==
  [F EXCEPT !.thr[child] = [ClearedThread EXCEPT !.zero_based_uniq_tid = F.uniq],
            !.nest[child] = 0,
            !.uniq = @ + 1]

\* evh__pre_thread_ll_exit(quit_tid)
DoThreadLlExit(F, quit_tid) ==
  [F EXCEPT !.thr[quit_tid].zero_based_uniq_tid = 0 - 1]

\* (*g_ptid_to_ts_tid)[ptid]: the value under the key; a key that is not in
\* the map is put into it with the value 0.
MapAt(map, ptid) == IF map[ptid] = Nil THEN 0 ELSE map[ptid]

\* case TSREQ_SET_MY_PTHREAD_T: (*g_ptid_to_ts_tid)[args[1]] = ts_tid
DoSetMyPthreadT(F, vg_tid, ptid) ==
  [F EXCEPT !.ptid_to_ts_tid[ptid] = VgTidToTsTid(F, vg_tid),
            !.registered[ptid] = @ \cup {VgTidToTsTid(F, vg_tid)}]

\* case TSREQ_PTHREAD_JOIN_POST:
\*   Put(THR_JOIN_AFTER, ts_tid, pc, (*g_ptid_to_ts_tid)[args[1]], 0)
DoPthreadJoinPost(F, vg_tid, ptid) ==
  [F EXCEPT !.ptid_to_ts_tid[ptid] = MapAt(F.ptid_to_ts_tid, ptid),
            !.join = <<[tid |-> VgTidToTsTid(F, vg_tid), ptid |-> ptid,
                        joined |-> MapAt(F.ptid_to_ts_tid, ptid)]>>]

\* At most MaxUniq threads are created.
ThreadLlCreate(par, child) ==
  /\ par # child
  /\ Alive(frontend, par) /\ ~Alive(frontend, child)
  /\ frontend.uniq < MaxUniq
  /\ FrontendStep(DoThreadLlCreate(frontend, child))

ThreadLlExit(quit_tid) ==
  /\ Alive(frontend, quit_tid)
  /\ \E other \in VgTids : other # quit_tid /\ Alive(frontend, other)
  /\ FrontendStep(DoThreadLlExit(frontend, quit_tid))

SetMyPthreadT(vg_tid, ptid) ==
  /\ Alive(frontend, vg_tid)
  /\ FrontendStep(DoSetMyPthreadT(frontend, vg_tid, ptid))

PthreadJoinPost(vg_tid, ptid) ==
  /\ Alive(frontend, vg_tid)
  /\ FrontendStep(DoPthreadJoinPost(frontend, vg_tid, ptid))

NextJoins ==
  \/ \E par, child \in VgTids : ThreadLlCreate(par, child)
  \/ \E quit_tid \in VgTids : ThreadLlExit(quit_tid)
  \/ \E vg_tid \in VgTids, ptid \in Ptids : SetMyPthreadT(vg_tid, ptid)
  \/ \E vg_tid \in VgTids, ptid \in Ptids : PthreadJoinPost(vg_tid, ptid)

SpecJoins == InitFrontend /\ [][NextJoins]_vars

(***************************************************************************)
(* StackTrace (tsan_sync.cc): an owned copy of a sequence of pcs.          *)
(***************************************************************************)
MaxDepth == 3
MaxPc == 2
StackPcs == 1 .. MaxPc

\* A buffer pointer: null, or the words of the block it points at.
NullBuf == [null |-> TRUE, mem |-> <<>>]

\* internal_alloc(sz * sizeof(uptr)): a block of sz words.  What a request of
\* 0 bytes returns is the allocator's choice: a null pointer (zero_null) or a
\* pointer to a block of no words.
internal_alloc(sz, zero_null) ==
  IF sz = 0 /\ zero_null THEN NullBuf ELSE [null |-> FALSE, mem |-> [i \in 1 .. sz |-> 0]]

\* StackTrace::StackTrace(), beside the shadow stack of the thread that uses
\* the trace; failed: a CHECK has ended the process.
StackTraceNew ==
  [called |-> TRUE, n_ |-> 0, s_ |-> NullBuf, shadow_stack |-> <<>>,
   op |-> "new", asked |-> 0, failed |-> FALSE]

\* StackTrace::Free
DoStackFree(T) ==
  IF T.s_.null THEN T
  ELSE IF T.n_ = 0 THEN [T EXCEPT !.failed = TRUE]
  ELSE [T EXCEPT !.s_ = NullBuf, !.n_ = 0]

\* StackTrace::Init(thr, pcs, cnt), cnt = Len(pcs)
DoStackInit(T, pcs) ==
  LET T1 == DoStackFree(T)
  IN  IF T1.failed \/ Len(pcs) = 0 THEN T1
      ELSE [T1 EXCEPT !.n_ = Len(pcs), !.s_ = [null |-> FALSE, mem |-> pcs]]

\* StackTrace::ObtainCurrent(thr, toppc)
DoObtainCurrent(T, toppc, zero_null) ==
  LET T1 == DoStackFree(T)
      n == Len(T.shadow_stack)
      buf == internal_alloc(n + (IF toppc # 0 THEN 1 ELSE 0), zero_null)
      pcs == ObtainCurrent(T.shadow_stack, toppc)
  IN  IF T1.failed THEN T1
      ELSE [T1 EXCEPT !.n_ = Len(pcs),
                      !.s_ = [buf EXCEPT !.mem = [i \in 1 .. Len(buf.mem) |->
                                                   IF i <= Len(pcs) THEN pcs[i] ELSE 0]]]

\* The thread enters a function: *shadow_stack_pos++ = pc.
FuncEntry(pc) ==
  /\ ~stacktrace.failed
  /\ Len(stacktrace.shadow_stack) < MaxDepth
  /\ stacktrace' = [stacktrace EXCEPT !.shadow_stack = Append(@, pc), !.op = "entry"]
  /\ UNCHANGED <<rtlVars, callVars, frontend>>

\* The thread leaves a function: shadow_stack_pos--.
FuncExit ==
  /\ ~stacktrace.failed
  /\ stacktrace.shadow_stack # <<>>
  /\ stacktrace' = [stacktrace EXCEPT
                      !.shadow_stack = SubSeq(@, 1, Len(@) - 1), !.op = "exit"]
  /\ UNCHANGED <<rtlVars, callVars, frontend>>

StackInit(pcs) ==
  /\ ~stacktrace.failed
  /\ stacktrace' = [DoStackInit(stacktrace, pcs) EXCEPT !.op = "Init", !.asked = Len(pcs)]
  /\ UNCHANGED <<rtlVars, callVars, frontend>>

StackObtainCurrent(toppc, zero_null) ==
  /\ ~stacktrace.failed
  /\ stacktrace' = [DoObtainCurrent(stacktrace, toppc, zero_null) EXCEPT
                      !.op = "ObtainCurrent",
                      !.asked = Len(stacktrace.shadow_stack) + (IF toppc # 0 THEN 1 ELSE 0)]
  /\ UNCHANGED <<rtlVars, callVars, frontend>>

StackFree ==
  /\ ~stacktrace.failed
  /\ stacktrace' = [DoStackFree(stacktrace) EXCEPT !.op = "Free"]
  /\ UNCHANGED <<rtlVars, callVars, frontend>>

\* The sequences of pcs Init is given.
InitPcs == {<<>>, <<1>>, <<2, 1>>}

NextTrace ==
  \/ \E pc \in StackPcs : FuncEntry(pc)
  \/ FuncExit
  \/ \E pcs \in InitPcs : StackInit(pcs)
  \/ \E toppc \in 0 .. MaxPc, zero_null \in BOOLEAN : StackObtainCurrent(toppc, zero_null)
  \/ StackFree

InitTrace ==
  /\ InitRtl(Constructed, 0)
  /\ InitCalls
  /\ frontend = NoCall
  /\ stacktrace = StackTraceNew

SpecTrace == InitTrace /\ [][NextTrace]_vars

(***************************************************************************)
(* Properties of the thread registry.                                      *)
(***************************************************************************)
\* The step is a call of ThreadCreate.
CreateCall == budget' # budget \/ (thread_seq = 0 /\ thread_seq' # 0)

\* The call of ThreadCreate that the step is returns the tid t.
Returned(t) ==
  /\ proc' = "run"
  /\ threads[t].status # ThreadStatusCreated
  /\ threads'[t].status = ThreadStatusCreated

\* The dead list, walked from t for at most n links.
RECURSIVE DeadListFrom(_, _)
DeadListFrom(t, n) ==
  IF n = 0 \/ t = Nil THEN <<>>
  ELSE <<t>> \o DeadListFrom(threads[t].dead_next, n - 1)

\* The context of t sits in the quarantine.
InQuarantine(t) ==
  \E i \in 1 .. dead_list_size :
    /\ i <= Len(DeadListFrom(dead_list_head, dead_list_size))
    /\ DeadListFrom(dead_list_head, dead_list_size)[i] = t

StatusEdges ==
  {<<ThreadStatusInvalid, ThreadStatusCreated>>,
   <<ThreadStatusCreated, ThreadStatusRunning>>,
   <<ThreadStatusRunning, ThreadStatusFinished>>,
   <<ThreadStatusFinished, ThreadStatusDead>>,
   <<ThreadStatusRunning, ThreadStatusDead>>}

\* C1: while the process runs, every change of a context's status is one of
\* Invalid->Created, Created->Running, Running->Finished, Finished->Dead,
\* Running->Dead, or the recycling Dead->Created made by a ThreadCreate that
\* takes the context from the quarantine.
C1_StatusEdges ==
  [][proc' # "run" \/
     \A t \in Tids :
       \/ threads'[t].status = threads[t].status
       \/ <<threads[t].status, threads'[t].status>> \in StatusEdges
       \/ /\ CreateCall
          /\ threads[t].status = ThreadStatusDead
          /\ threads'[t].status = ThreadStatusCreated
          /\ threads'[t].reuse_count = threads[t].reuse_count + 1]_vars

\* C1 witness: a recycled context is Created, one is Running, one Finished and
\* one Dead: every edge has been taken.
C1_Witness ==
  /\ \E t \in Tids : threads[t].status = ThreadStatusCreated /\ threads[t].reuse_count > 0
  /\ \E t \in Tids : threads[t].status = ThreadStatusRunning
  /\ \E t \in Tids : threads[t].status = ThreadStatusFinished
  /\ \E t \in Tids : threads[t].status = ThreadStatusDead

\* C3: right after a ThreadJoin that found its thread T, the joiner's clock
\* component of T is at least the last epoch T reached, and T's context is
\* Dead and sits in the quarantine.
C3_JoinTransfersHB ==
  ev.op = "join" =>
    /\ thr[ev.thr].live
    /\ ClockGet(thr[ev.thr].clock, ev.tid) >= reached[ev.tid]
    /\ threads[ev.tid].status = ThreadStatusDead
    /\ InQuarantine(ev.tid)

\* C3 witness: a join of a thread that made a memory access after it started.
C3_Witness ==
  /\ ev.op = "join"
  /\ reached[ev.tid] > threads[ev.tid].epoch0 + 1
  /\ ClockGet(thr[ev.thr].clock, ev.tid) = reached[ev.tid]

\* C4 (as stated): every running thread that a running parent P created has
\* clock[P.tid] >= P's epoch at the create.
C4_ChildSeesParent ==
  \A t \in Tids :
    thr[t].live /\ parent[t][1] # Nil =>
      ClockGet(thr[t].clock, parent[t][1]) >= parent[t][2]

\* C5 (as stated): the first epoch of a thread that runs on a recycled TID is
\* greater than every epoch the previous incarnation reached.
C5_EpochsNotReused ==
  \A t \in Tids :
    threads[t].status = ThreadStatusRunning /\ threads[t].reuse_count > 0 =>
      threads[t].epoch0 > reached[t]

\* The call of ThreadCreate that the step is takes the context that has been
\* Dead the longest, and no new TID.
ReusesOldest ==
  /\ died # <<>>
  /\ Returned(Head(died))
  /\ threads[Head(died)].status = ThreadStatusDead
  /\ thread_seq' = thread_seq

\* C6 (amended): a ThreadCreate called while the quarantine holds more than
\* kThreadQuarantineSize contexts reuses the TID of the context that has been
\* Dead the longest, and allocates no new TID.
C6_ReuseOldestOverQ ==
  [][CreateCall /\ dead_list_size > kThreadQuarantineSize => ReusesOldest]_vars

\* C6 (as stated): the same for a quarantine of at least kThreadQuarantineSize
\* contexts.
C6_ReuseOldestAtQ ==
  [][CreateCall /\ dead_list_size >= kThreadQuarantineSize => ReusesOldest]_vars

\* C6 witness: a context was recycled from a quarantine over its size while
\* new TIDs were left.
C6_Witness ==
  /\ thread_seq < kMaxTid
  /\ dead_list_size >= kThreadQuarantineSize
  /\ \E t \in Tids : threads[t].status = ThreadStatusCreated /\ threads[t].reuse_count > 0

\* C7 (amended): ThreadCreate returns a previously used TID only when the
\* quarantine held more than kThreadQuarantineSize contexts, or thread_seq had
\* reached kMaxTid and the quarantine was not empty; otherwise the TID it
\* returns is thread_seq, never handed out before.
C7_ReuseOnlyOverQOrFull ==
  [][CreateCall =>
       \A t \in Tids :
         Returned(t) =>
           IF threads[t].alloc
           THEN /\ dead_list_size > 0
                /\ dead_list_size > kThreadQuarantineSize \/ thread_seq >= kMaxTid
           ELSE t = thread_seq /\ thread_seq' = thread_seq + 1]_vars

\* C7 (as stated): ThreadCreate returns a previously used TID only when the
\* quarantine held at least kThreadQuarantineSize contexts.
C7_ReuseOnlyAtQ ==
  [][CreateCall =>
       \A t \in Tids :
         Returned(t) /\ threads[t].alloc => dead_list_size >= kThreadQuarantineSize]_vars

\* C7 witness: with the thread table full, a context was recycled from a
\* quarantine below its size.
C7_Witness ==
  /\ thread_seq = kMaxTid
  /\ dead_list_size + 1 < kThreadQuarantineSize
  /\ \E t \in Tids : threads[t].status = ThreadStatusCreated /\ threads[t].reuse_count > 0

\* C8: a call of ThreadCreate ends in "thread limit exceeded" exactly when the
\* quarantine is empty and thread_seq >= kMaxTid; every other call returns a
\* TID below kMaxTid whose context is Created.
C8_ThreadLimit ==
  [][CreateCall =>
       /\ proc' = "die" <=> (dead_list_size = 0 /\ thread_seq >= kMaxTid)
       /\ proc' # "die" => \E t \in Tids : t < kMaxTid /\ Returned(t)]_vars

\* C8 witness: the process died of the thread limit.
C8_Witness == proc = "die"

\* The number of reports about the thread t among rs.
NReportsOf(rs, t) == Cardinality({i \in 1 .. Len(rs) : rs[i].id = t})

\* C9: a call of ThreadFinalize emits exactly one report, a ThreadLeak with the
\* thread's tid and creation stack, for each context that is Created, Running
\* or Finished and not detached, none for any other context, and adds one to
\* nreported for each.
C9_LeakReports ==
  [][proc' = "final" =>
       /\ nreported' = nreported + Len(reports')
       /\ \A t \in Tids :
            NReportsOf(reports', t) =
              IF /\ threads[t].status \in {ThreadStatusCreated, ThreadStatusRunning,
                                           ThreadStatusFinished}
                 /\ ~threads[t].detached
              THEN 1 ELSE 0
       /\ \A i \in 1 .. Len(reports') :
            /\ reports'[i].typ = "ReportTypeThreadLeak"
            /\ reports'[i].nthread = 1
            /\ reports'[i].id \in Tids
            /\ reports'[i].stack = threads[reports'[i].id].creation_stack]_vars

\* C9 witness: a finalize that reported two leaked threads with their creation
\* stacks (thread 0, detached, is not among them).
C9_Witness ==
  /\ proc = "final"
  /\ Len(reports) >= 2
  /\ nreported = Len(reports)
  /\ reports[1].id # reports[2].id
  /\ \A i \in 1 .. Len(reports) : reports[i].id # 0 /\ reports[i].stack # <<>>

\* C10: a context is Running exactly when its thr pointer is set; a set thr
\* pointer refers to a live ThreadState of that tid; no two contexts refer to
\* the same ThreadState; a ThreadState that no context refers to is not live.
C10_RunningIffThreadState ==
  /\ \A t \in Tids :
       /\ threads[t].status = ThreadStatusRunning <=> threads[t].thr # Nil
       /\ threads[t].thr # Nil =>
            thr[threads[t].thr].live /\ thr[threads[t].thr].tid = t
  /\ \A t, u \in Tids :
       t # u /\ threads[t].thr # Nil => threads[t].thr # threads[u].thr
  /\ \A s \in Tids : thr[s].live => \E t \in Tids : threads[t].thr = s

\* C10 witness: two threads run, one of them on a recycled TID, beside
\* contexts that do not run.
C10_Witness ==
  /\ Cardinality({t \in Tids : threads[t].status = ThreadStatusRunning}) = 2
  /\ \E t \in Tids : threads[t].status = ThreadStatusRunning /\ threads[t].reuse_count > 0
  /\ \E t \in Tids : threads[t].status = ThreadStatusDead

(***************************************************************************)
(* Properties of the sync table.                                           *)
(***************************************************************************)
\* The places of the table that hold a SyncVar with the address addr.
InTable(addr) ==
  {<<i, k>> \in Parts \X (1 .. MaxSyncVars) :
     k <= Len(part_val[i]) /\ syncvar[part_val[i][k]].addr = addr}

\* C2: in every state of every interleaving of GetAndLock and GetAndRemove
\* calls, the table holds at most one SyncVar for any address.
C2_OneSyncVarPerAddr ==
  \A addr \in Addrs : Cardinality(InTable(addr)) <= 1

\* C2 witness: a caller that missed the address under the read lock has found,
\* in its second walk, the SyncVar that another caller created meanwhile.
C2_Witness ==
  \E t \in Callers :
    /\ call[t].pc = "gl_miss"
    /\ ~call[t].created
    /\ Cardinality(InTable(call[t].addr)) = 1

\* The SyncVar v is linked in the buckets val.
LinkedIn(val, v) == \E i \in Parts : \E k \in 1 .. Len(val[i]) : val[i][k] = v

\* The SyncVar v is linked in the table.
Linked(v) == LinkedIn(part_val, v)

\* The caller t holds the lock of the SyncVar v in the mode it asked for.
HoldsAsAsked(t, v) ==
  IF call[t].write_lock
  THEN syncvar[v].mtx.w = t /\ syncvar[v].mtx.r = {}
  ELSE syncvar[v].mtx.w = 0 /\ t \in syncvar[v].mtx.r

\* C11: a GetAndLock that has returned holds a SyncVar with the address asked
\* for, locked by the caller in the mode asked for; two calls that returned for
\* the same address hold the same SyncVar unless one was removed; and a
\* SyncVar is created only under the shard's write lock, when the second walk
\* finds none for the address in the table.
C11_GetAndLockReturns ==
  /\ [](\A t \in Callers :
         call[t].pc = "locked" =>
           /\ call[t].res \in SyncVarIds
           /\ syncvar[call[t].res].alloc
           /\ syncvar[call[t].res].addr = call[t].addr
           /\ HoldsAsAsked(t, call[t].res))
  /\ [](\A t, u \in Callers :
         /\ call[t].pc = "locked" /\ call[u].pc = "locked"
         /\ call[t].addr = call[u].addr
         /\ Linked(call[t].res) /\ Linked(call[u].res)
         => call[t].res = call[u].res)
  /\ [][\A t \in Callers :
          call'[t].created /\ ~call[t].created =>
            /\ InTable(call[t].addr) = {}
            /\ part_mtx[PartIdx(call[t].addr)].w = t
            /\ Cardinality(InTable(call[t].addr))' = 1]_vars

\* C11 witness: two callers asked for the same absent address; one created the
\* SyncVar, the other was returned the same one, and both hold it shared.
C11_Witness ==
  \E t, u \in Callers :
    /\ t # u
    /\ call[t].pc = "locked" /\ call[u].pc = "locked"
    /\ call[t].addr = call[u].addr
    /\ call[t].created /\ ~call[u].created
    /\ call[t].res = call[u].res
    /\ {t, u} \subseteq syncvar[call[t].res].mtx.r

\* The caller t holds the lock of its shard, shared or exclusive.
HoldsShard(t) ==
  LET m == part_mtx[PartIdx(call[t].addr)] IN m.w = t \/ t \in m.r

\* The caller t holds the lock of the SyncVar v.
HoldsVar(t, v) == syncvar[v].mtx.w = t \/ t \in syncvar[v].mtx.r

\* The caller t is in GetAndLock, at the statement that locks the SyncVar.
AtVarLock(t) == call[t].pc \in {"gl_hit", "gl_miss"}

\* C12 (as stated): a caller of GetAndLock that takes, or is blocked on, the
\* lock of a SyncVar does not hold the lock of the shard.
C12_VarLockAfterShardUnlock ==
  \A t \in Callers : AtVarLock(t) => ~HoldsShard(t)

\* C12 (amended): a caller of GetAndLock takes, and may be blocked on, the lock
\* of the SyncVar while it holds the lock of the shard (shared after a hit,
\* exclusive after a miss); it releases the shard lock after it has the
\* SyncVar's lock, as it returns.
C12_VarLockUnderShardLock ==
  /\ [](\A t \in Callers :
         /\ AtVarLock(t) => HoldsShard(t)
         /\ call[t].pc = "gl_hit" => t \in part_mtx[PartIdx(call[t].addr)].r
         /\ call[t].pc = "gl_miss" => part_mtx[PartIdx(call[t].addr)].w = t
         /\ call[t].pc = "locked" => ~HoldsShard(t) /\ HoldsVar(t, call[t].res))
  /\ [][\A t \in Callers :
          call[t].pc \in {"gl_rd", "gl_walk", "gl_hit", "gl_wr", "gl_recheck", "gl_miss"} =>
            \A v \in SyncVarIds :
              ~HoldsVar(t, v) /\ HoldsVar(t, v)' => HoldsShard(t) /\ HoldsShard(t)']_vars

\* C12 witness: a caller that hit is blocked on the lock of the SyncVar, which
\* another caller holds, and holds the shard's lock meanwhile.
C12_Witness ==
  \E t, u \in Callers :
    /\ t # u
    /\ call[t].pc = "gl_hit"
    /\ call[t].write_lock
    /\ call[u].pc = "locked"
    /\ HoldsVar(u, call[t].res)
    /\ HoldsShard(t)

\* The caller t is in GetAndLock and has found, holds or is about to lock v.
GetAndLockHas(t, v) ==
  /\ call[t].pc \in {"gl_hit", "gl_hit_ret", "gl_miss", "gl_miss_ret", "locked"}
  /\ call[t].res = v

\* C13: a SyncVar that GetAndRemove has returned is not linked in the table,
\* nobody holds its lock, and no caller of GetAndLock has it, is about to lock
\* it or is returned it; a GetAndRemove of an absent address returns 0 and
\* leaves the table as it is, one of a present address unlinks the SyncVar.
C13_RemovedIsGone ==
  /\ [](\A v \in SyncVarIds :
         syncvar[v].removed =>
           /\ ~Linked(v)
           /\ syncvar[v].mtx = FreeMutex
           /\ \A t \in Callers : ~GetAndLockHas(t, v))
  /\ [][\A t \in Callers :
          call[t].pc = "gr_unlink" /\ call'[t].pc # "gr_unlink" =>
            IF InTable(call[t].addr) = {}
            THEN call'[t] = Idle /\ part_val' = part_val /\ syncvar' = syncvar
            ELSE /\ call'[t].pc = "gr_drain"
                 /\ syncvar[call'[t].res].addr = call[t].addr
                 /\ LinkedIn(part_val, call'[t].res)
                 /\ ~LinkedIn(part_val', call'[t].res)]_vars

\* C13 witness: GetAndRemove has returned a SyncVar; a later GetAndLock of the
\* address has created another one, which is linked, and holds it.
C13_Witness ==
  \E v, w \in SyncVarIds, t \in Callers :
    /\ syncvar[v].removed
    /\ ~syncvar[w].removed
    /\ syncvar[w].addr = syncvar[v].addr
    /\ Linked(w)
    /\ call[t].pc = "locked" /\ call[t].res = w /\ call[t].created

(***************************************************************************)
(* Properties of the locks.                                                *)
(***************************************************************************)
\* The caller t holds the mutex m, shared or exclusive.
Holds(m, t) == m.w = t \/ t \in m.r

\* The caller t holds the lock of a shard of the table tab.
HoldsAShard(tab, t) == \E i \in Parts : Holds(tab[i], t)

\* The SyncVars among sv whose lock the caller t holds.
VarsHeld(sv, t) == {v \in SyncVarIds : Holds(sv[v].mtx, t)}

\* C14: a caller that takes, or waits for, the lock of a shard holds no lock
\* of a SyncVar, nor thread_mtx, nor report_mtx; one that takes, or waits
\* for, the lock of a SyncVar holds neither thread_mtx nor report_mtx; one
\* that takes, or waits for, thread_mtx does not hold report_mtx.
C14_LockOrder ==
  /\ [](\A t \in Callers :
         /\ call[t].pc \in {"gl_rd", "gl_wr", "gr_wr"} =>
              /\ VarsHeld(syncvar, t) = {}
              /\ ~Holds(thread_mtx, t) /\ ~Holds(report_mtx, t)
         /\ call[t].pc \in {"gl_hit", "gl_miss", "gr_drain"} =>
              ~Holds(thread_mtx, t) /\ ~Holds(report_mtx, t)
         /\ call[t].pc = "reg_lock" => ~Holds(report_mtx, t))
  /\ [][\A t \in Callers :
          /\ ~HoldsAShard(part_mtx, t) /\ HoldsAShard(part_mtx', t) =>
               /\ VarsHeld(syncvar, t) = {}
               /\ ~Holds(thread_mtx, t) /\ ~Holds(report_mtx, t)
          /\ VarsHeld(syncvar', t) \ VarsHeld(syncvar, t) # {} =>
               ~Holds(thread_mtx, t) /\ ~Holds(report_mtx, t)
          /\ ~Holds(thread_mtx, t) /\ Holds(thread_mtx', t) =>
               ~Holds(report_mtx, t)]_vars

\* C14 witness: one caller holds report_mtx inside thread_mtx, in
\* ThreadFinalize, while another holds the lock of a SyncVar inside the lock
\* of its shard, in GetAndLock.
C14_Witness ==
  \E t, u \in Callers :
    /\ call[t].pc = "fin_rep"
    /\ Holds(thread_mtx, t) /\ Holds(report_mtx, t)
    /\ call[u].pc \in {"gl_hit_ret", "gl_miss_ret"}
    /\ HoldsAShard(part_mtx, u) /\ VarsHeld(syncvar, u) # {}

\* C15: once the front-end makes no further call, every call in progress
\* returns and every SyncVar that GetAndLock returned is unlocked: no set of
\* threads waits for each other's locks forever.
C15_EveryCallReturns ==
  (~calls_open) ~> (\A t \in Callers : call[t].pc = "idle")

\* C15 witness: with no further call to come, a GetAndRemove waits for the
\* lock of the SyncVar it unlinked, held by a caller of GetAndLock, while
\* nobody holds thread_mtx.
C15_Witness ==
  \E t, u \in Callers :
    /\ ~calls_open
    /\ call[t].pc = "gr_drain"
    /\ call[u].pc = "locked"
    /\ Holds(syncvar[call[t].res].mtx, u)

\* C16: a caller outside a call holds no lock; a caller that GetAndLock has
\* returned to holds the lock of the SyncVar returned and no other lock.
C16_LocksReleasedOnReturn ==
  \A t \in Callers :
    /\ call[t].pc = "idle" =>
         /\ ~HoldsAShard(part_mtx, t)
         /\ VarsHeld(syncvar, t) = {}
         /\ ~Holds(thread_mtx, t) /\ ~Holds(report_mtx, t)
    /\ call[t].pc = "locked" =>
         /\ ~HoldsAShard(part_mtx, t)
         /\ VarsHeld(syncvar, t) = {call[t].res}
         /\ ~Holds(thread_mtx, t) /\ ~Holds(report_mtx, t)

\* C16 witness: GetAndLock has returned to one caller, GetAndRemove has
\* returned a SyncVar, the other caller is outside a call, and but for the
\* lock of the SyncVar returned every lock is free.
C16_Witness ==
  \E t, u \in Callers :
    /\ call[t].pc = "locked"
    /\ call[u].pc = "idle"
    /\ \E v \in SyncVarIds : syncvar[v].removed
    /\ \A i \in Parts : part_mtx[i] = FreeMutex
    /\ thread_mtx = FreeMutex /\ report_mtx = FreeMutex

(***************************************************************************)
(* Properties of the epoch of a running thread.                            *)
(***************************************************************************)
\* C17: while the process runs, the epoch of a running thread never
\* decreases; a non-empty access of a thread that does not ignore raises it
\* by exactly one, so does a ThreadCreate the thread calls, and a thread
\* that finishes joinable leaves its epoch plus one in epoch1.
C17_EpochAdvances ==
  [][proc' = "run" =>
       \A s \in Tids :
         /\ thr[s].live /\ thr'[s].live => thr'[s].epoch >= thr[s].epoch
         /\ \A size \in {0, 1} :
              MemoryAccessRange(s, size) /\ size # 0 /\ ~thr[s].ignore =>
                thr'[s].epoch = thr[s].epoch + 1
         /\ \A detached \in BOOLEAN :
              ThreadCreate(s, detached) => thr'[s].epoch = thr[s].epoch + 1
         /\ ThreadFinish(s) /\ ~threads[thr[s].tid].detached =>
              threads'[thr[s].tid].epoch1 = thr[s].epoch + 1]_vars

(***************************************************************************)
(* Properties of the race reports.                                         *)
(***************************************************************************)
\* The previous access of the report r was made by the thread that created
\* the current thread, before it created it (create -> start), the tid of
\* that thread never having been recycled.
OrderedByCreate(r) ==
  /\ r.par[1] = r.old.tid
  /\ r.old_reuse = 0
  /\ r.old.epoch <= r.par[2]

\* C18: for every race reported, the current thread's clock component for
\* the previous thread was below the previous access's epoch, and the
\* previous access is not ordered before the current one by the creation
\* and start of the current thread.
C18_ReportedMeansUnordered ==
  \A r \in races : r.clk < r.old.epoch /\ ~OrderedByCreate(r)

\* C19: no race is reported whose current and previous access are both
\* reads.
C19_NoReadReadRace ==
  \A r \in races : r.cur.write \/ r.old.write

\* C19 witness: a read that overlaps a read of another thread that its clock
\* does not cover has been stored, and no race has been reported.
C19_Witness ==
  /\ races = {}
  /\ \E c \in Cells : \E i, j \in 1 .. kShadowCnt :
       /\ shadow[c][i] # ShadowZero /\ shadow[c][j] # ShadowZero
       /\ ~shadow[c][i].write /\ ~shadow[c][j].write
       /\ shadow[c][i].tid # shadow[c][j].tid
       /\ Overlap(shadow[c][i], shadow[c][j])
       /\ thr[shadow[c][j].tid].live
       /\ thr[shadow[c][j].tid].epoch = shadow[c][j].epoch
       /\ ~HappensBefore(shadow[c][i], thr[shadow[c][j].tid].clock)

\* C20: no race is reported whose current and previous access carry the same
\* tid.
C20_NoSameThreadRace ==
  \A r \in races : r.cur.tid # r.old.tid

\* C20 witness: a thread has written over bytes that it accessed before
\* with another range, both accesses are stored, and no race has been
\* reported.
C20_Witness ==
  /\ races = {}
  /\ \E c \in Cells : \E i, j \in 1 .. kShadowCnt :
       /\ shadow[c][i] # ShadowZero /\ shadow[c][j] # ShadowZero
       /\ shadow[c][i].tid = shadow[c][j].tid
       /\ shadow[c][i].epoch < shadow[c][j].epoch
       /\ shadow[c][j].write
       /\ ~SameRange(shadow[c][i], shadow[c][j])
       /\ Overlap(shadow[c][i], shadow[c][j])

(***************************************************************************)
(* Properties of MemoryAccessRange.                                        *)
(***************************************************************************)
\* The number of bytes of the update u.
UpdateSize(u) == 2 ^ u.size_log

\* The cell of the byte a lies wholly in [addr, addr + size).
CellCovered(a, addr, size) ==
  LET base == a - (a % kShadowCell)
  IN  base >= addr /\ base + kShadowCell <= addr + size

\* C21: the updates of MemoryAccessRange(addr, size), size > 0, follow each
\* other from addr to addr + size without gap or overlap; an update is of
\* one byte, for a byte whose cell does not lie wholly in the range, or of
\* the 8 bytes of a cell that does, at offset 0.
C21_RangePartition ==
  range.called /\ range.size > 0 =>
    LET ups == range.updates
    IN  /\ ups # <<>>
        /\ ups[1].addr = range.addr
        /\ \A k \in 1 .. (Len(ups) - 1) : ups[k + 1].addr = ups[k].addr + UpdateSize(ups[k])
        /\ ups[Len(ups)].addr + UpdateSize(ups[Len(ups)]) = range.addr + range.size
        /\ \A k \in 1 .. Len(ups) :
             \/ /\ ups[k].size_log = 0
                /\ ~CellCovered(ups[k].addr, range.addr, range.size)
             \/ /\ ups[k].size_log = 3
                /\ ups[k].addr % kShadowCell = 0
                /\ CellCovered(ups[k].addr, range.addr, range.size)

\* C21 witness: a range that begins inside a cell, covers a whole cell and
\* ends inside a third has been split.
C21_Witness ==
  /\ range.called
  /\ range.addr % kShadowCell # 0
  /\ \E i, j, k \in 1 .. Len(range.updates) :
       /\ i < j /\ j < k
       /\ range.updates[i].size_log = 0
       /\ range.updates[j].size_log = 3
       /\ range.updates[k].size_log = 0

(***************************************************************************)
(* Properties of detached threads.                                         *)
(***************************************************************************)
\* C23: no context is both detached and Finished; a detached thread that
\* finishes is Dead when ThreadFinish returns, and a Finished thread that is
\* detached is Dead when ThreadDetach returns.
C23_DetachedNeverFinished ==
  /\ [](\A t \in Tids :
         ~(threads[t].alloc /\ threads[t].detached
             /\ threads[t].status = ThreadStatusFinished))
  /\ [][proc' = "run" =>
         \A s \in Tids :
           /\ ThreadFinish(s) /\ threads[thr[s].tid].detached =>
                threads'[thr[s].tid].status = ThreadStatusDead
           /\ \A uid \in 0 .. MaxUid :
                (/\ ThreadDetach(s, uid)
                 /\ FindThread(Cur, uid) # Nil
                 /\ threads[FindThread(Cur, uid)].status = ThreadStatusFinished)
                  => threads'[FindThread(Cur, uid)].status = ThreadStatusDead]_vars

\* C23 witness: a thread that finished detached and a thread that finished
\* joinable are both Dead, the second not by a join.
C23_Witness ==
  \E t, u \in Tids :
    /\ threads[t].status = ThreadStatusDead /\ threads[t].detached
    /\ threads[u].status = ThreadStatusDead /\ ~threads[u].detached
    /\ threads[u].alloc /\ u # 0
    /\ ev = NoEvent
    /\ died # <<>> /\ died[Len(died)] = u

(***************************************************************************)
(* Properties of the calls the front-end should not make.                  *)
(***************************************************************************)
\* The process goes on and the registry is as it was.
EventSkipped ==
  /\ proc' = "run"
  /\ UNCHANGED <<threads, thread_seq, dead_list_head, dead_list_tail, dead_list_size>>

\* C24: a ThreadStart for a tid that is not Created, a ThreadFinish of a
\* thread that is not Running, and a ThreadJoin of an unknown uid or of a
\* thread that is not Finished leave the process running and the registry
\* unchanged.
C24_ViolationsSkipped ==
  [][\A s \in Tids :
       /\ ThreadStart(s) /\ ~StartAllowed(threads[s]) => EventSkipped
       /\ ThreadFinish(s) /\ threads[thr[s].tid].status # ThreadStatusRunning =>
            EventSkipped
       /\ \A uid \in 0 .. MaxUid :
            (/\ ThreadJoin(s, uid)
             /\ \/ FindThread(Cur, uid) = Nil
                \/ threads[FindThread(Cur, uid)].status # ThreadStatusFinished)
              => EventSkipped]_vars

\* C22: a MemoryAccessRange call of size 0, or of a thread whose ignore bit
\* is set, leaves the caller's epoch and trace as they were, and reads and
\* writes no shadow cell; nothing is reported.
C22_SkippedAccess ==
  [][\A s \in Tids, addr \in AccessAddrs, size \in AccessSizes, is_write \in BOOLEAN :
       MemoryAccessRangeShadow(s, addr, size, is_write) /\ (size = 0 \/ thr[s].ignore)
         => /\ thr'[s].epoch = thr[s].epoch
            /\ thr'[s].ntrace = thr[s].ntrace
            /\ shadow' = shadow
            /\ probed' = {}
            /\ races' = races]_vars

\* C22 witness: after a call that stored a shadow word, a call has touched no
\* cell, a thread having its ignore bit set.
C22_Witness ==
  /\ mops < MaxMops
  /\ probed = {}
  /\ \E c \in Cells, i \in 1 .. kShadowCnt : shadow[c][i] # ShadowZero
  /\ \E s \in Tids : thr[s].live /\ thr[s].ignore

(***************************************************************************)
(* Properties of the ignore file.                                          *)
(***************************************************************************)
\* The lines of a text: what stands before the first newline, between two
\* newlines, and after the last one.
RECURSIVE TextLines(_)
TextLines(text) ==
  IF \A k \in 1 .. Len(text) : text[k] # NL THEN <<text>>
  ELSE LET k == CHOOSE k \in 1 .. Len(text) :
                  text[k] = NL /\ \A j \in 1 .. (k - 1) : text[j] # NL
       IN  <<SubSeq(text, 1, k - 1)>> \o TextLines(SubSeq(text, k + 1, Len(text)))

\* A line without its comment and without its whitespace.
Directive(line) ==
  LET n == IF \E k \in 1 .. Len(line) : line[k] = "#"
           THEN (CHOOSE k \in 1 .. Len(line) :
                   line[k] = "#" /\ \A j \in 1 .. (k - 1) : line[j] # "#") - 1
           ELSE Len(line)
      NotBlank(ch) == ~Blank(ch)
  IN  SelectSeq(SubSeq(line, 1, n), NotBlank)

\* The directives of a text: its lines that are not blank, in order.
Directives(text) ==
  LET ls == TextLines(text)
      NotEmpty(l) == l # <<>>
  IN  SelectSeq([k \in 1 .. Len(ls) |-> Directive(ls[k])], NotEmpty)

Recognised(line) ==
  \E p \in {PrefixObj, PrefixSrc, PrefixFun, PrefixFunR, PrefixFunHist} : HasPrefix(line, p)

\* C25: a text with a directive of no known prefix makes ReadIgnoresFromString
\* print that line and abort, wherever the line stands in the text, the last
\* line without a newline included.
C25_UnknownDirectiveAborts ==
  ignorefile.called =>
    LET ds == Directives(ignorefile.text)
    IN  \A k \in 1 .. Len(ds) :
          ~Recognised(ds[k]) /\ (\A j \in 1 .. (k - 1) : Recognised(ds[j]))
            => ignorefile.aborted /\ ignorefile.printed = ds[k]

\* The entry a recognised directive stands for.
EntryOf(line) ==
  IF HasPrefix(line, PrefixObj) THEN IgnoreObj(CutStringPrefix(line, PrefixObj))
  ELSE IF HasPrefix(line, PrefixSrc) THEN IgnoreFile(CutStringPrefix(line, PrefixSrc))
  ELSE IF HasPrefix(line, PrefixFun) THEN IgnoreFun(CutStringPrefix(line, PrefixFun))
  ELSE IF HasPrefix(line, PrefixFunR) THEN IgnoreFun(CutStringPrefix(line, PrefixFunR))
  ELSE IgnoreFun(CutStringPrefix(line, PrefixFunHist))

\* The entries of the directives that one of the prefixes ps selects, in order.
EntriesOf(ds, ps) ==
  LET Selected(l) == \E p \in ps : HasPrefix(l, p)
      sel == SelectSeq(ds, Selected)
  IN  [k \in 1 .. Len(sel) |-> EntryOf(sel[k])]

\* C26: a text of recognised directives only adds one entry per directive, in
\* the order of the text, to the list its prefix selects: obj:, src: and fun:
\* to ignores, fun_r: to ignores_r, fun_hist: to ignores_hist.
C26_OneEntryPerDirective ==
  ignorefile.called =>
    LET ds == Directives(ignorefile.text)
    IN  (\A k \in 1 .. Len(ds) : Recognised(ds[k]))
          => /\ ~ignorefile.aborted
             /\ ignorefile.lists.ignores = EntriesOf(ds, {PrefixObj, PrefixSrc, PrefixFun})
             /\ ignorefile.lists.ignores_r = EntriesOf(ds, {PrefixFunR})
             /\ ignorefile.lists.ignores_hist = EntriesOf(ds, {PrefixFunHist})

\* The pattern pat matches the non-empty name and is not the trivial "*".
MatchedForReal(pat, name) == name # <<>> /\ StringMatch(pat, name) /\ pat # Star

C28_ExitCode ==
  fini.exited =>
    fini.code = IF fini.error_exitcode # 0 /\ fini.errors > 0
                THEN fini.error_exitcode
                ELSE fini.app

(***************************************************************************)
(* Properties of a recycled tid.                                           *)
(***************************************************************************)
\* C29: when ThreadCreate returns a recycled tid, the sync clock of the
\* context holds what the creating thread released into it and nothing else:
\* the clock of the creator, and nothing at all for tid 0, for which nothing
\* is released.
C29_RecycledSyncFresh ==
  [][proc' = "run" =>
       \A t \in Tids :
         (threads[t].alloc /\ threads[t].status = ThreadStatusDead /\ Returned(t))
           => threads'[t].sync = IF t # 0 THEN thr'[parent'[t][1]].clock ELSE ZeroClock]_vars

\* C29 witness: a context that thread 0 created first is recycled by another
\* thread, Created, and holds the clock of that thread.
C29_Witness ==
  \E t \in Tids :
    /\ threads[t].alloc
    /\ threads[t].status = ThreadStatusCreated
    /\ threads[t].reuse_count > 0
    /\ parent[t][1] # Nil
    /\ parent[t][1] # 0
    /\ threads[t].sync = thr[parent[t][1]].clock
    /\ threads[t].sync # ZeroClock

(***************************************************************************)
(* Properties of the trace.                                                *)
(***************************************************************************)
\* C30: a thread has appended as many trace events as it has incremented its
\* epoch: the increment of ThreadCreate for a child other than tid 0, of a
\* joinable ThreadFinish and of MemoryAccessRange each come with one event,
\* and a range access of any length that is not skipped increments once.
C30_EpochTraced ==
  /\ [](\A s \in Tids :
          thr[s].live =>
            /\ thr[s].epoch = threads[s].epoch0 + thr[s].ntrace
            /\ BumpEpoch(thr[s]).epoch = thr[s].epoch + 1
            /\ BumpEpoch(thr[s]).ntrace = thr[s].ntrace + 1)
  /\ [][\A s \in Tids, size \in RangeLens :
          MemoryAccessRange(s, size) /\ ~AccessSkipped(size, thr[s].ignore)
            => /\ thr'[s].epoch = thr[s].epoch + 1
               /\ thr'[s].ntrace = thr[s].ntrace + 1]_vars

\* C30 witness: a thread has incremented its epoch twice, the second time in
\* a call of ThreadCreate, and traced two events.
C30_Witness ==
  \E s \in Tids, t \in Tids :
    /\ thr[s].live
    /\ thr[s].ntrace = 2
    /\ thr[s].epoch = threads[s].epoch0 + 2
    /\ t # 0
    /\ threads[t].alloc
    /\ parent[t] = <<s, thr[s].epoch>>
    /\ budget < MaxNew

(***************************************************************************)
(* Properties of the registry under concurrent calls.                      *)
(***************************************************************************)
\* The caller t is in the body of an operation of the registry.
InRegistryBody(t) ==
  call[t].pc \in {"reg_body", "reg_store", "fin_loop", "fin_rep_lock", "fin_rep"}

\* C31: a caller that is in the body of ThreadCreate, ThreadStart,
\* ThreadFinish, ThreadJoin, ThreadDetach or ThreadFinalize, where the
\* registry is read and written, holds thread_mtx, alone; and what a body
\* stores was worked out from the registry as it is when it is stored, so the
\* calls take effect one after the other.
C31_RegistryUnderLock ==
  \A t \in Callers :
    /\ InRegistryBody(t) => thread_mtx.w = t
    /\ InRegistryBody(t) => \A u \in Callers : InRegistryBody(u) => u = t
    /\ call[t].pc = "reg_store" => call[t].body[1].read = Cur

\* C31 witness: a caller is about to store a registry that differs from the
\* one it read, after an earlier call has changed the registry, while another
\* caller waits for thread_mtx.
C31_Witness ==
  \E t \in Callers, u \in Callers :
    /\ call[t].pc = "reg_store"
    /\ call[t].body[1].store # call[t].body[1].read
    /\ call[u].pc = "reg_lock"
    /\ budget = 0

\* The body b of a call of ThreadCreate returns the tid: it leaves the context
\* Created, which it did not find Created.
BodyReturns(b, tid) ==
  /\ b.store.proc = "run"
  /\ b.read.threads[tid].status # ThreadStatusCreated
  /\ b.store.threads[tid].status = ThreadStatusCreated

\* C32: however the calls of ThreadCreate interleave with the other calls of
\* the registry, a context that is allocated carries its index as tid, below
\* kMaxTid, and a call of ThreadCreate returns a tid whose context was never
\* returned before, or is Dead since it was.
C32_TidsUnique ==
  /\ [](/\ thread_seq <= kMaxTid
        /\ \A tid \in Tids :
             threads[tid].alloc => threads[tid].tid = tid /\ tid < thread_seq)
  /\ [][\A t \in Callers, tid \in Tids :
          (RegistryStore(t) /\ call[t].op = "ThreadCreate" /\ BodyReturns(call[t].body[1], tid))
            => /\ ~threads[tid].alloc \/ threads[tid].status = ThreadStatusDead
               /\ threads'[tid].status = ThreadStatusCreated
               /\ threads'[tid].tid = tid]_vars

\* C32 witness: a call of ThreadCreate has returned a recycled tid, and a call
\* made at the same time is about to return another tid.
C32_Witness ==
  \E tid \in Tids, u \in Callers :
    /\ threads[tid].alloc
    /\ threads[tid].status = ThreadStatusCreated
    /\ threads[tid].reuse_count > 0
    /\ budget = 0
    /\ call[u].pc = "reg_store"
    /\ call[u].op = "ThreadCreate"
    /\ \E tid2 \in Tids : tid2 # tid /\ BodyReturns(call[u].body[1], tid2)

(***************************************************************************)
(* Properties of the front-end.                                            *)
(***************************************************************************)
\* C33: for each thread of the front-end, the calls notified to the engine
\* less the exits notified are as many as the frames of its call_stack, after
\* any calls and stack shrinks; and a stack shrink pops a frame, one, only
\* when its address is not below the sp recorded for the top frame.
C33_CallStackBalanced ==
  /\ [](\A t \in VgTids :
          LET i == VgTidToTsTid(frontend, t)
          IN  frontend.ncall[i] - frontend.nexit[i] = Len(frontend.thr[t].call_stack))
  /\ [][\A t \in VgTids, a \in 0 .. MaxSp :
          LET call_stack == frontend.thr[t].call_stack
          IN  DieMemStack(t, a) /\ frontend'.thr[t].call_stack # call_stack
                => /\ call_stack # <<>>
                   /\ a >= call_stack[Len(call_stack)]
                   /\ Len(frontend'.thr[t].call_stack) = Len(call_stack) - 1]_vars

\* C33 witness: a thread has made calls, a stack shrink has popped a frame
\* of it, and frames are left.
C33_Witness ==
  \E t \in VgTids :
    LET i == VgTidToTsTid(frontend, t)
    IN  /\ frontend.nexit[i] > 0
        /\ Len(frontend.thr[t].call_stack) > 1
        /\ frontend.ncall[i] = MaxCalls

(***************************************************************************)
(* Properties of the dead list.                                            *)
(***************************************************************************)
\* The contexts that are Dead.
DeadContexts == {t \in Tids : threads[t].alloc /\ threads[t].status = ThreadStatusDead}

\* The dead list walked from its head to the context that has no next one.
DeadList == DeadListFrom(dead_list_head, kMaxTid + 1)

\* C34: while the process runs, dead_list_size is the number of the contexts
\* that are Dead and the length of the list that starts at dead_list_head,
\* which ends at dead_list_tail and holds the Dead contexts in the order in
\* which they became Dead; and a context that is recycled is the first of it.
C34_DeadListExact ==
  /\ [](proc = "run" =>
          /\ dead_list_size = Cardinality(DeadContexts)
          /\ dead_list_size = Len(DeadList)
          /\ DeadList = died
          /\ DeadList # <<>> => DeadList[Len(DeadList)] = dead_list_tail)
  /\ [][proc' = "run" =>
          \A t \in Tids :
            Returned(t) /\ threads[t].alloc
              => /\ t = Head(died)
                 /\ died' = Tail(died)]_vars

\* C34 witness: contexts wait in the dead list, in the order in which they
\* became Dead, after the first of the list was recycled.
C34_Witness ==
  /\ proc = "run"
  /\ Len(DeadList) >= 2
  /\ DeadList = died
  /\ \E t \in Tids :
       /\ threads[t].alloc
       /\ threads[t].reuse_count > 0
       /\ threads[t].status # ThreadStatusDead
  /\ budget < MaxNew

(***************************************************************************)
(* Properties of the uids of Dead threads.                                 *)
(***************************************************************************)
\* C35: ThreadJoin and ThreadDetach never resolve the uid they are given to a
\* Dead context; when they resolve it to none they change neither the
\* registry nor the clock of the caller.
C35_DeadNotResolved ==
  [][\A s \in Tids, uid \in 0 .. MaxUid :
       (ThreadJoin(s, uid) \/ ThreadDetach(s, uid))
         => LET tid == FindThread(Cur, uid)
            IN  /\ tid # Nil => threads[tid].status # ThreadStatusDead
                /\ tid = Nil => threads' = threads /\ thr' = thr /\ proc' = "run"]_vars

(***************************************************************************)
(* The shadow pointer of the updates of MemoryAccessRange.                 *)
(***************************************************************************)
\* The shadow pointer of an update, in shadow words from the shadow of
\* address 0: kShadowCnt words per cell.
ShadowPtr(sm) == sm * kShadowCnt

\* C36: every update of MemoryAccessRange(addr, size) for the address a is
\* passed the shadow pointer of the starting cell advanced by kShadowCnt
\* words for each cell between the cell of addr and the cell of a, whatever
\* the alignment of addr and the size.
C36_ShadowPointer ==
  range.called /\ range.size > 0 =>
    \A k \in 1 .. Len(range.updates) :
      LET u == range.updates[k]
      IN  ShadowPtr(u.sm)
            = ShadowPtr(range.addr \div kShadowCell)
                + kShadowCnt * ((u.addr \div kShadowCell) - (range.addr \div kShadowCell))

\* C36 witness: a range that begins inside a cell has updated a later cell.
C36_Witness ==
  /\ range.called
  /\ range.addr % kShadowCell # 0
  /\ \E k \in 1 .. Len(range.updates) :
       range.updates[k].addr \div kShadowCell > range.addr \div kShadowCell

(***************************************************************************)
(* Properties of StackTrace.                                               *)
(***************************************************************************)
\* C37: after every Init, ObtainCurrent and Free the buffer pointer of a
\* StackTrace is null exactly when its length is 0 and no CHECK has failed;
\* Init and ObtainCurrent leave as many entries as they were asked for (the
\* depth of the shadow stack plus one if toppc is not 0), none and a null
\* buffer when that number is 0.
C37_BufferIffLength ==
  /\ ~stacktrace.failed
  /\ stacktrace.s_.null <=> stacktrace.n_ = 0
  /\ stacktrace.op \in {"Init", "ObtainCurrent"} => stacktrace.n_ = stacktrace.asked
  /\ stacktrace.op = "Free" => stacktrace.n_ = 0

(***************************************************************************)
(* Properties of the front-end's ignore count.                             *)
(***************************************************************************)
\* What sampling or the global ignore adds to ignore_accesses of a thread.
Sampled(vt) == IF vt.ignore_accesses_in_current_trace THEN 1 ELSE 0

\* C38: with properly nested IGNORE_ALL_ACCESSES_BEGIN/END requests no CHECK
\* fails; ignore_accesses of a thread is never negative, is the number of
\* open requests plus at most 1 for sampling or the global ignore, and is
\* above 0 when ignore_accesses_in_current_trace is set; a trace entry
\* withdraws the 1 of the trace before and adds it again only by its own
\* decision; and Mop forwards an access exactly when ignore_accesses is 0.
C38_IgnoreCount ==
  /\ [](/\ ~frontend.failed
        /\ \A t \in VgTids :
             LET vt == frontend.thr[t]
             IN  /\ vt.ignore_accesses >= 0
                 /\ vt.ignore_accesses_in_current_trace => vt.ignore_accesses > 0
                 /\ vt.ignore_accesses = frontend.nest[t] + Sampled(vt))
  /\ [][\A t \in VgTids :
         /\ \A skip \in BOOLEAN :
              TraceEntry(t, skip) =>
                (frontend'.thr[t].ignore_accesses_in_current_trace
                   <=> (frontend.nest[t] = 0 /\ (frontend.global_ignore \/ skip)))
         /\ Mop(t) =>
              LET i == VgTidToTsTid(frontend, t)
              IN  IF frontend.thr[t].ignore_accesses = 0
                  THEN frontend'.nmop[i] = frontend.nmop[i] + 1 /\ frontend'.nskip = frontend.nskip
                  ELSE frontend'.nskip[i] = frontend.nskip[i] + 1 /\ frontend'.nmop = frontend.nmop]_vars

\* C38 witness: a thread with no open request is in a trace that sampling
\* made it ignore, and accesses of it have been forwarded and skipped.
C38_Witness ==
  \E t \in VgTids :
    /\ ~frontend.global_ignore
    /\ frontend.nest[t] = 0
    /\ frontend.thr[t].ignore_accesses_in_current_trace
    /\ frontend.thr[t].ignore_accesses = 1
    /\ frontend.nskip[VgTidToTsTid(frontend, t)] > 0
    /\ frontend.nmop[VgTidToTsTid(frontend, t)] > 0

(***************************************************************************)
(* Properties of the joins of the front-end.                               *)
(***************************************************************************)
\* C39: the THR_JOIN_AFTER event put for a TSREQ_PTHREAD_JOIN_POST request
\* names the thread id that registered the joined pthread_t last, and never
\* a thread that has not registered it.
C39_JoinNamesRegistrant ==
  /\ [](frontend.join # <<>> =>
          frontend.join[1].joined \in frontend.registered[frontend.join[1].ptid])
  /\ [][\A t \in VgTids, p \in Ptids :
         PthreadJoinPost(t, p) /\ frontend.ptid_to_ts_tid[p] # Nil
           => frontend'.join[1].joined = frontend.ptid_to_ts_tid[p]]_vars

====
